---- MODULE Spec2Model ----
(***************************************************************************)
(* Model of the validation loop (validate_generated_script,                *)
(* request_fix_from_ai) and of the multi-job test harness                  *)
(* (validate_scraper_multi_job) of src/ai_parser.py.                       *)
(***************************************************************************)
EXTENDS Integers, Sequences, FiniteSets, TLC

\* ------------------------------------------------------------------ bounds
MaxAttempts == 3      \* largest max_attempts the model passes to the loop
MaxFiles == 1         \* distinct output files matching the job id glob
MaxCalls == 3         \* calls of a registry function on the same url
MaxUrls == 4          \* longest test_urls list given to the harness

\* ------------------------------------------------------- program constants
SufficiencyFloor == 500   \* len(content) > 500
StderrLogCap == 500       \* result.stderr[:500]
BatchFloor == 500         \* harness: len(content) > 500

Shebang == "#!/usr/bin/env python3\n"
NoFile == [len |-> -1, word |-> "<absent>"]
NoContent == [len |-> -1, word |-> "<unread>"]
NoWrite == [file |-> 0, text |-> NoFile]
NoProc == [timedOut |-> FALSE, returncode |-> -1, stderr |-> -1, wrote |-> 0]
NoResult == [success |-> FALSE, issues |-> << <<"<none>">> >>]
NoPrompt == [error_message |-> <<"<none>">>, broken_script |-> <<>>, working_js |-> <<>>]

\* ------------------------------------------------------------ input sets
\* Output texts a scraper run can leave in job_descriptions/: a length and
\* the one word of the text that may be a descriptive marker.
Contents ==
  { [len |-> 200, word |-> "About"],
    [len |-> 500, word |-> "RESPONSIBILITIES"],
    [len |-> 501, word |-> "Description"],
    [len |-> 501, word |-> "about"] }

ReturnCodes == {0, 1}
StderrLens == {600}

\* str.lower() on the words of Contents
Lower(w) ==
  CASE w = "About" -> "about"
    [] w = "Description" -> "description"
    [] w = "RESPONSIBILITIES" -> "responsibilities"
    [] w = "LINKEDIN.COM" -> "linkedin.com"
    [] w = "ABC123" -> "abc123"
    [] w = "-JV_IC" -> "-jv_ic"
    [] OTHER -> w

\* "About" in content or "responsibilities" in content.lower()
\*   or "description" in content.lower()
HasMarker(c) ==
  \/ c.word = "About"
  \/ Lower(c.word) = "responsibilities"
  \/ Lower(c.word) = "description"

Min(a, b) == IF a < b THEN a ELSE b

\* ------------------------------------------------------- discovery records
Fields == {"title", "company", "description"}

JsTitle == [strategy |-> "javascript_evaluation", code |-> "js:h1", success |-> TRUE]
JsDesc == [strategy |-> "javascript_evaluation", code |-> "js:markup", success |-> TRUE]
CssTitle == [strategy |-> "css_selector", selector |-> "css:h1", success |-> TRUE]
CssCompany == [strategy |-> "css_selector", selector |-> "css:.company-name", success |-> TRUE]

\* Discovery records as run_discovery_mode builds them: the verified
\* tested_strategies per field (a scripted strategy first when it worked)
\* plus the oracle's narrative fields.
DiscoveryLogs ==
  { [job_id |-> "4300362234",
     tested_strategies |-> [f \in Fields |->
        CASE f = "title" -> <<JsTitle, CssTitle>>
          [] f = "company" -> <<CssCompany>>
          [] OTHER -> <<JsDesc>>],
     observations |-> <<"narrative:observed">>,
     data_extraction |-> [f \in Fields |-> "narrative:" \o f],
     edge_cases |-> <<"narrative:edge">>] }

\* ------------------------------------------------------- oracle responses
\* A response text is a sequence of tokens; fences are tokens of their own.
FencePy == "<fence python>"   \* three backquotes followed by python
Fence == "<fence>"            \* three backquotes

OracleResponses ==
  { <<"Here is the fix:", FencePy, "fixed", Fence>>,
    <<Fence, "fixed", Fence, "Notes">>,
    <<"fixed">>,
    <<"I cannot fix this script">> }

\* Tokens that are Python source calling page.evaluate(: the script that
\* passed the checks of run_generation_mode and a working repair
SourceTokens == {"generated", "fixed"}

\* validate_python_syntax: ast.parse accepts the text (the shebang line
\* is a comment)
ValidPythonSyntax(text) ==
  \A i \in 1..Len(text) : text[i] \in SourceTokens \cup {Shebang}

\* 'page.evaluate(' in text
UsesPageEvaluate(text) == \E i \in 1..Len(text) : text[i] \in SourceTokens

\* First index >= i of a token in toks, 0 when there is none
RECURSIVE FindFrom(_, _, _)
FindFrom(text, i, toks) ==
  IF i > Len(text) THEN 0
  ELSE IF text[i] \in toks THEN i
  ELSE FindFrom(text, i + 1, toks)

\* re.search(open \s*(.*?)\s* fence): the tokens between the first opening
\* fence and the first fence after it; <<>> marks "no match".
FenceMatch(text, openToks) ==
  LET i == FindFrom(text, 1, openToks)
      j == IF i = 0 THEN 0 ELSE FindFrom(text, i + 1, {Fence, FencePy})
  IN  IF i = 0 \/ j = 0 THEN [found |-> FALSE, group |-> <<>>]
      ELSE [found |-> TRUE, group |-> SubSeq(text, i + 1, j - 1)]

\* request_fix_from_ai, "Extract code"
ExtractCode(response_text) ==
  LET m1 == FenceMatch(response_text, {FencePy})
      m2 == FenceMatch(response_text, {Fence, FencePy})
  IN  IF m1.found THEN m1.group
      ELSE IF m2.found THEN m2.group
      ELSE response_text

\* First index of a successful javascript_evaluation strategy, 0 if none
RECURSIVE FirstJs(_, _)
FirstJs(strategies, i) ==
  IF i > Len(strategies) THEN 0
  ELSE IF strategies[i].strategy = "javascript_evaluation" /\ strategies[i].success
       THEN i
       ELSE FirstJs(strategies, i + 1)

\* WorkingJs filled from the oracle's data_extraction narrative
WorkingJs_Narrative(log) ==
  [f \in DOMAIN log.data_extraction |-> log.data_extraction[f]]

\* request_fix_from_ai, "Extract working strategies": working_js
WorkingJs(log) ==
  LET ts == log.tested_strategies
      has == {f \in DOMAIN ts : FirstJs(ts[f], 1) # 0}
  IN  [f \in has |-> ts[f][FirstJs(ts[f], 1)].code]

\* ------------------------------------------------------------------ state
VARIABLES
  mode,              \* which entry point runs: "validate" or "batch"
  max_attempts,      \* validate_generated_script: parameter
  discovery_log,     \* validate_generated_script: parameter
  attempt,           \* loop variable of the for loop
  pc,                \* "Idle", "Running", "Repairing", "Passed", "Failed", "Raised"
  result,            \* the returned (success, issues)
  script,            \* text of the artifact file at script_path
  job_descriptions,  \* files of job_descriptions/ matching the job id glob
  proc,              \* outcome of the last subprocess.run
  content,           \* text read from output_files[0] in the last attempt
  error_message,     \* failure signal handed to request_fix_from_ai
  fix_prompt,        \* last prompt sent to the oracle
  log,               \* one record per classified attempt (logging calls)
  executions,        \* number of subprocess.run calls made
  repairs,           \* number of request_fix_from_ai calls made
  writes,            \* number of times the artifact file was rewritten
  exc                \* exception that escaped the loop, "none" otherwise

valVars == <<max_attempts, discovery_log, attempt, pc, result, script,
             job_descriptions, proc, content, error_message, fix_prompt,
             log, executions, repairs, writes, exc>>

VARIABLES
  site,          \* validate_scraper_multi_job: parameter
  arg_urls,      \* the test_urls argument as passed: None, or a list
  test_urls,     \* the list the harness works on once resolved
  results,       \* result dicts appended so far
  bpc,           \* "Called", "Testing", "Done"
  success_rate   \* the returned rate

batchVars == <<site, arg_urls, test_urls, results, bpc, success_rate>>

VARIABLES
  gpc,             \* main, generate branch: "Idle", "Generating", "Validating",
                   \* "Returned", "Testing", "Exited"
  multi_job_test,  \* args.multi_job_test
  log_site,        \* discovery_log.get("site") of the loaded log file
  log_url,         \* discovery_log.get("url") of the loaded log file
  report,          \* the report file written by save_test_report
  warned,          \* the below-target warning was printed
  exit_status      \* exit status of the process, -1 while it runs

genVars == <<gpc, multi_job_test, log_site, log_url, report, warned, exit_status>>

VARIABLES
  field_name,     \* test_extraction_strategies: parameter
  ppc,            \* "Idle", "Js", "Css", "Done" (returned)
  selector_i,     \* position of the for loop in css_selectors[field_name]
  probe_results,  \* the list results of test_extraction_strategies
  attempts        \* what each strategy tried so far came back with

probeVars == <<field_name, ppc, selector_i, probe_results, attempts>>

VARIABLES
  xpc,               \* test_show_more_button: "Idle", "Baseline", "Triggers",
                     \* "Remeasure", "Done" (returned)
  page_desc,         \* textContent.length of the description element of the
                     \* page, -1 when the page has no such element
  desc_before,       \* local of test_show_more_button
  button_i,          \* position of the for loop in button_selectors
  clicked,           \* local of test_show_more_button
  clicked_selector,  \* local, 0 for None
  trigger_log,       \* how each selector tried so far went
  show_more_strategy \* the returned dict

expandVars == <<xpc, page_desc, desc_before, button_i, clicked,
                clicked_selector, trigger_log, show_more_strategy>>

VARIABLES
  dpc,              \* main, discover branch: "Idle", "Called", "Launched",
                    \* "Loaded", "Expanded", "Sampled", "Done", "Raised"
  job_url,          \* args.url as it stands at line 1724: normalised, or the
                    \* original when url_utils is missing or raised
  site_arg,         \* args.site, "None" when not given
  job_id,           \* local of run_discovery_mode
  browser,          \* "none", "open", "closed"
  navigations,      \* page.goto calls made
  page_ops,         \* other operations made on the page
  oracle_calls,     \* messages.create calls made
  d_error,          \* message of the exception the command ended with
  field_i,          \* position of the loop over the four fields
  active,           \* probes awaited and not yet returned
  events,           \* operations on the page and the oracle, in order
  tested,           \* tested_strategies: per field, whether the list is not empty
  show_more,        \* show_more_strategy as returned by test_show_more_button
  html_samples,     \* html_samples: per captured field, the length kept
  response,         \* the text the oracle answered with
  d_log,            \* the dict run_discovery_mode returns
  persisted         \* the content of the file save_discovery_log wrote

discVars == <<dpc, job_url, site_arg, job_id, browser, navigations, page_ops,
              oracle_calls, d_error, field_i, active, events, tested,
              show_more, html_samples, response, d_log, persisted>>

VARIABLES
  reg_url,    \* the url the registry functions are called on
  detected,   \* what each call of detect_job_site(url) returned
  extracted   \* what each call of extract_job_id(url) returned

regVars == <<reg_url, detected, extracted>>

\* run_generation_mode from the log to the written artifact
VARIABLES
  spc,               \* "Idle", "Called", "Prompted", "Written", "Raised",
                     \* "Validating", "Returned"
  s_log,             \* discovery_log as loaded
  s_site,            \* site
  js_code_snippets,  \* field -> code
  generation_prompt, \* per field, the strategy text the prompt shows
  s_oracle_calls,    \* messages.create calls made
  generated_script,  \* the script taken out of the oracle's answer
  s_warnings,        \* what logging.warning reported about the script
  artifact,          \* the file written under generated_scripts
  s_error,           \* message of the exception raised
  generated_scripts, \* the directory generated_scripts: per site, the text
  s_config           \* config, as read where the validation is decided

synthVars == <<spc, s_log, s_site, js_code_snippets, generation_prompt,
               s_oracle_calls, generated_script, s_warnings, artifact,
               s_error, generated_scripts, s_config>>

\* save_discovery_log and load_discovery_log
VARIABLES
  fpc,         \* "Idle", "Called", "Saved", "Loaded"
  p_site,      \* site
  log_data,    \* the dict handed to save_discovery_log
  filepath,    \* the name of the file written
  log_file,    \* the text of the file written
  loaded_log   \* what load_discovery_log returned

persistVars == <<fpc, p_site, log_data, filepath, log_file, loaded_log>>

\* one execution result judged by the harness and by the loop
VARIABLES
  exec_run,         \* what subprocess.run and the glob gave
  harness_verdict,  \* "unjudged", "success", "failure"
  loop_verdict      \* "unjudged", or the branch the loop takes

judgeVars == <<exec_run, harness_verdict, loop_verdict>>

\* url_utils.normalize_job_url and the registry on its result
VARIABLES
  c_url,         \* the url given
  normalized,    \* normalize_job_url(c_url)
  renormalized,  \* normalize_job_url of the canonical url
  c_detected,    \* ai_parser.detect_job_site of the canonical url
  c_extracted    \* ai_parser.extract_job_id of the canonical url

canonVars == <<c_url, normalized, renormalized, c_detected, c_extracted>>

\* the variables of the record file and of the url canonicalizer
tailVars == <<persistVars, judgeVars, canonVars>>

\* the variables of the site registry and of the generation step
moreVars == <<regVars, synthVars, tailVars>>

\* the variables of the entry points added after the loop and the harness
restVars == <<genVars, probeVars, expandVars, discVars, moreVars>>

\* ------------------------------------------------ validate_generated_script
\* Path("job_descriptions").glob(f"*{job_id}*")
OutputFiles(dir) == {f \in DOMAIN dir : dir[f] # NoFile}

\* What one run of the artifact may write: nothing, or one output file
Writes == {NoWrite} \cup
          [file : 1..MaxFiles, text : Contents]

AfterWrite(dir, w) ==
  IF w.file = 0 THEN dir ELSE [dir EXCEPT ![w.file] = w.text]

\* Classify with the length floor tested as >= instead of >
Classify_FloorInclusive(p, output_files, c) ==
  IF p.timedOut THEN "Timeout"
  ELSE IF p.returncode # 0 THEN "NonZeroExit"
  ELSE IF output_files = {} THEN "NoOutputProduced"
  ELSE IF c.len >= SufficiencyFloor /\ HasMarker(c) THEN "Sufficient"
  ELSE "InsufficientContent"

\* The branch of the loop body an attempt takes
Classify(p, output_files, c) ==
  IF p.timedOut THEN "Timeout"
  ELSE IF p.returncode # 0 THEN "NonZeroExit"
  ELSE IF output_files = {} THEN "NoOutputProduced"
  ELSE IF c.len > SufficiencyFloor /\ HasMarker(c) THEN "Sufficient"
  ELSE "InsufficientContent"

\* error_msg of each branch (the passing branch logs the length)
ErrorMsg(outcome, p, c) ==
  CASE outcome = "Timeout" -> <<"Script execution timeout (90s)">>
    [] outcome = "NonZeroExit" -> <<"Script failed with exit code", p.returncode>>
    [] outcome = "NoOutputProduced" -> <<"No output file generated">>
    [] outcome = "InsufficientContent" ->
         <<"Output too short or missing key content", c.len>>
    [] OTHER -> <<"Validation passed", c.len>>

\* second argument of request_fix_from_ai in each branch
FailureSignal(outcome, p, c) ==
  IF outcome = "NonZeroExit" THEN <<"stderr", p.stderr>>
  ELSE ErrorMsg(outcome, p, c)

\* the issues returned when attempt = max_attempts
Issues(outcome, p, c) ==
  IF outcome = "NonZeroExit"
  THEN <<ErrorMsg(outcome, p, c), <<"stderr", Min(p.stderr, StderrLogCap)>>>>
  ELSE <<ErrorMsg(outcome, p, c)>>

\* NextPc without the return on the passing branch before the last attempt
NextPc_NoEarlyReturn(outcome, n, max) ==
  IF n < max THEN "Repairing"
  ELSE IF outcome = "Sufficient" THEN "Passed"
  ELSE "Failed"

\* NextPc giving up one attempt early
NextPc_OffByOne(outcome, n, max) ==
  IF outcome = "Sufficient" THEN "Passed"
  ELSE IF n + 1 < max THEN "Repairing"
  ELSE "Failed"

\* NextPc asking for a repair after the last attempt too
NextPc_RepairAtLast(outcome, n, max) ==
  IF outcome = "Sufficient" THEN "Passed"
  ELSE IF n <= max THEN "Repairing"
  ELSE "Failed"

\* Where the loop body goes after classifying attempt n: return True on the
\* passing branch, the repair call while attempt < max_attempts, else
\* return False
NextPc(outcome, n, max) ==
  IF outcome = "Sufficient" THEN "Passed"
  ELSE IF n < max THEN "Repairing"
  ELSE "Failed"

\* for attempt in range(1, max_attempts + 1): the range is exhausted (only
\* possible when max_attempts < 1) and the final return is taken
LoopExit ==
  /\ mode \in {"validate", "generate"} /\ pc = "Running"
  /\ attempt > max_attempts
  /\ pc' = "Failed"
  /\ result' = [success |-> FALSE,
                issues |-> <<<<"Validation failed after all attempts">>>>]
  /\ UNCHANGED <<restVars, batchVars, mode, max_attempts, discovery_log, attempt, script,
                 job_descriptions, proc, content, error_message, fix_prompt,
                 log, executions, repairs, writes, exc>>

\* Execute leaving an empty stub in place of the artifact when it gives up
Execute_CleanupOnFail ==
  /\ mode \in {"validate", "generate"} /\ pc = "Running"
  /\ attempt <= max_attempts
  /\ \E timedOut \in BOOLEAN, rc \in ReturnCodes, se \in StderrLens,
        w \in Writes, pick \in 1..MaxFiles :
       LET p == [timedOut |-> timedOut,
                 returncode |-> IF timedOut THEN -1 ELSE rc,
                 stderr |-> IF timedOut THEN -1 ELSE IF rc = 0 THEN 0 ELSE se,
                 wrote |-> w.file]
           dir == AfterWrite(job_descriptions, w)
           output_files == OutputFiles(dir)
           reads == ~timedOut /\ rc = 0 /\ output_files # {}
           c == IF reads THEN dir[pick] ELSE NoContent
           outcome == Classify(p, output_files, c)
       IN  /\ IF reads THEN pick \in output_files ELSE pick = 1
           /\ (timedOut => rc = 0)
           /\ proc' = p
           /\ job_descriptions' = dir
           /\ content' = c
           /\ executions' = executions + 1
           /\ log' = Append(log, [attempt |-> attempt, outcome |-> outcome,
                                  error_msg |-> ErrorMsg(outcome, p, c)])
           /\ pc' = NextPc(outcome, attempt, max_attempts)
           /\ IF pc' = "Passed"
              THEN /\ result' = [success |-> TRUE, issues |-> <<>>]
                   /\ UNCHANGED error_message
              ELSE IF pc' = "Repairing"
              THEN /\ error_message' = FailureSignal(outcome, p, c)
                   /\ UNCHANGED result
              ELSE /\ result' = [success |-> FALSE, issues |-> Issues(outcome, p, c)]
                   /\ UNCHANGED error_message
           /\ script' = IF pc' = "Failed" THEN <<Shebang>> ELSE script
  /\ UNCHANGED <<restVars, batchVars, mode, max_attempts, discovery_log, attempt, fix_prompt,
                 repairs, writes, exc>>

\* One pass of the loop body up to its return or its call of
\* request_fix_from_ai: run the artifact, glob, read, classify.
Execute ==
  /\ mode \in {"validate", "generate"} /\ pc = "Running"
  /\ attempt <= max_attempts
  /\ \E timedOut \in BOOLEAN, rc \in ReturnCodes, se \in StderrLens,
        w \in Writes, pick \in 1..MaxFiles :
       LET p == [timedOut |-> timedOut,
                 returncode |-> IF timedOut THEN -1 ELSE rc,
                 stderr |-> IF timedOut THEN -1 ELSE IF rc = 0 THEN 0 ELSE se,
                 wrote |-> w.file]
           dir == AfterWrite(job_descriptions, w)
           output_files == OutputFiles(dir)
           reads == ~timedOut /\ rc = 0 /\ output_files # {}
           c == IF reads THEN dir[pick] ELSE NoContent
           outcome == Classify(p, output_files, c)
       IN  /\ IF reads THEN pick \in output_files ELSE pick = 1
           /\ (timedOut => rc = 0)
           /\ proc' = p
           /\ job_descriptions' = dir
           /\ content' = c
           /\ executions' = executions + 1
           /\ log' = Append(log, [attempt |-> attempt, outcome |-> outcome,
                                  error_msg |-> ErrorMsg(outcome, p, c)])
           /\ pc' = NextPc(outcome, attempt, max_attempts)
           /\ IF pc' = "Passed"
              THEN /\ result' = [success |-> TRUE, issues |-> <<>>]
                   /\ UNCHANGED error_message
              ELSE IF pc' = "Repairing"
              THEN /\ error_message' = FailureSignal(outcome, p, c)
                   /\ UNCHANGED result
              ELSE /\ result' = [success |-> FALSE, issues |-> Issues(outcome, p, c)]
                   /\ UNCHANGED error_message
  /\ UNCHANGED <<restVars, batchVars, mode, max_attempts, discovery_log, attempt, script, fix_prompt,
                 repairs, writes, exc>>

\* request_fix_from_ai: the prompt built from the file, the error and the log
FixPrompt(broken_script, err, dlog) ==
  [error_message |-> err, broken_script |-> broken_script,
   working_js |-> WorkingJs(dlog)]

\* RequestFix retrying the same attempt number
RequestFix_NoAdvance ==
  /\ mode \in {"validate", "generate"} /\ pc = "Repairing"
  /\ \E response_text \in OracleResponses :
       /\ fix_prompt' = FixPrompt(script, error_message, discovery_log)
       /\ script' = <<Shebang>> \o ExtractCode(response_text)
  /\ repairs' = repairs + 1
  /\ writes' = writes + 1
  /\ attempt' = attempt
  /\ pc' = "Running"
  /\ UNCHANGED <<restVars, batchVars, mode, max_attempts, discovery_log, result,
                 job_descriptions, proc, content, error_message, log,
                 executions, exc>>

\* request_fix_from_ai returns; the loop rewrites the artifact and continues
RequestFix ==
  /\ mode \in {"validate", "generate"} /\ pc = "Repairing"
  /\ \E response_text \in OracleResponses :
       /\ fix_prompt' = FixPrompt(script, error_message, discovery_log)
       /\ script' = <<Shebang>> \o ExtractCode(response_text)
  /\ repairs' = repairs + 1
  /\ writes' = writes + 1
  /\ attempt' = attempt + 1
  /\ pc' = "Running"
  /\ UNCHANGED <<restVars, batchVars, mode, max_attempts, discovery_log, result, job_descriptions,
                 proc, content, error_message, log, executions, exc>>

\* The oracle call raises (API error), or the oracle answers and opening the
\* artifact for writing raises: nothing in the loop catches either.
RequestFixRaises ==
  /\ mode \in {"validate", "generate"} /\ pc = "Repairing"
  /\ fix_prompt' = FixPrompt(script, error_message, discovery_log)
  /\ repairs' = repairs + 1
  /\ \E e \in {"APIError", "OSError"} : exc' = e
  /\ pc' = "Raised"
  /\ UNCHANGED <<restVars, batchVars, mode, max_attempts, discovery_log, attempt, result, script,
                 job_descriptions, proc, content, error_message, log,
                 executions, writes>>

\* Directories the loop can find at its start: empty, or holding the output
\* of an earlier run for the same job id
InitialDirs ==
  { [f \in 1..MaxFiles |-> NoFile],
    [f \in 1..MaxFiles |->
       IF f = 1 THEN [len |-> 501, word |-> "Description"] ELSE NoFile] }

InitValidate ==
  /\ max_attempts \in 0..MaxAttempts
  /\ discovery_log \in DiscoveryLogs
  /\ attempt = 1
  /\ pc = "Running"
  /\ result = NoResult
  /\ script = <<Shebang, "generated">>
  /\ job_descriptions \in InitialDirs
  /\ proc = NoProc
  /\ content = NoContent
  /\ error_message = <<"<none>">>
  /\ fix_prompt = NoPrompt
  /\ log = <<>>
  /\ executions = 0
  /\ repairs = 0
  /\ writes = 0
  /\ exc = "none"

\* ------------------------------------------------ validate_scraper_multi_job
JobSites == {"linkedin", "indeed", "glassdoor"}

\* SITE_CONFIGS in the order of the dict
SiteOrder == <<"linkedin", "indeed", "glassdoor">>

\* A url is the sequence of the pieces of its text; a regular expression is
\* searched piece by piece.
\* https://www.linkedin.com/jobs/view/4305267405
LinkedInUrl ==
  <<"https://www.", "linkedin.com", "/jobs", "/view/", "4305267405">>
\* https://www.indeed.com/viewjob?jk=ee188e8f304a1b67&from=shareddesktop_copy
IndeedUrl ==
  <<"https://www.", "indeed.com", "/viewjob", "?jk=", "ee188e8f304a1b67",
    "&from=shareddesktop_copy">>
UrlPool == {LinkedInUrl, IndeedUrl}

\* Pieces \d+ matches as a whole, and pieces [a-f0-9]+ matches as a whole
DigitTokens == {"4305267405", "4300362234", "1234"}
HexTokens == DigitTokens \cup {"ee188e8f304a1b67", "d7a8476f98b7ec44", "abc123"}

\* url_pattern of each SiteConfig
url_pattern(s) ==
  CASE s = "linkedin" -> <<"linkedin.com", "/jobs">>
    [] s = "indeed" -> <<"indeed.com", "/viewjob">>
    [] s = "glassdoor" -> <<"glassdoor.com", "/job-listing">>

\* job_id_pattern of each SiteConfig: the literal texts that may precede the
\* group, and what the group matches
IdPrefixes(s) ==
  CASE s = "linkedin" -> {<<"/jobs", "/view/">>}
    [] s = "indeed" -> {<<"?jk=">>, <<"&jk=">>}
    [] s = "glassdoor" -> {<<"-JV_IC">>}
IdGroup(s) == IF s = "indeed" THEN HexTokens ELSE DigitTokens

\* pat occurs in url at position i
OccursAt(pat, url, i) ==
  /\ i + Len(pat) - 1 <= Len(url)
  /\ \A k \in 1..Len(pat) : url[i + k - 1] = pat[k]

\* re.search(url_pattern, url, re.IGNORECASE)
UrlPatternMatches(s, url) ==
  LET folded == [i \in 1..Len(url) |-> Lower(url[i])]
  IN  \E i \in 1..Len(url) : OccursAt(url_pattern(s), folded, i)

\* positions where job_id_pattern matches: a prefix followed by the group
IdMatches(s, url) ==
  {i \in 1..Len(url) :
     \E pre \in IdPrefixes(s) :
       /\ OccursAt(pre, url, i)
       /\ i + Len(pre) <= Len(url)
       /\ url[i + Len(pre)] \in IdGroup(s)}

SetMin(S) == CHOOSE x \in S : \A y \in S : x <= y

\* TEST_URLS
TEST_URLS(s) ==
  CASE s = "linkedin" -> <<LinkedInUrl>>
    [] s = "indeed" -> <<IndeedUrl>>
    [] OTHER -> <<>>

\* extract_job_id(url, site) with the site given: the site's job_id_pattern
\* applied to the url
JobIdOf(url, s) ==
  IF IdMatches(s, url) = {} THEN "None"
  ELSE LET i == SetMin(IdMatches(s, url))
           pre == CHOOSE q \in IdPrefixes(s) : OccursAt(q, url, i)
       IN  url[i + Len(pre)]

\* Python floats of the harness, kept as exact fractions in lowest terms
RECURSIVE Gcd(_, _)
Gcd(a, b) == IF b = 0 THEN a ELSE Gcd(b, a % b)

Frac(n, d) == LET g == Gcd(n, d) IN [num |-> n \div g, den |-> d \div g]
FracDiv(a, b) == Frac(a, b)                      \* a / b, b > 0
FracTimes(q, k) == Frac(q.num * k, q.den)        \* q * k

\* sum(1 for r in results if r["success"])
RECURSIVE CountSuccess(_)
CountSuccess(rs) ==
  IF rs = <<>> THEN 0
  ELSE (IF rs[1].success THEN 1 ELSE 0) + CountSuccess(Tail(rs))

\* SuccessRate with floor division
SuccessRate_FloorDiv(rs) ==
  IF rs # <<>> THEN Frac((CountSuccess(rs) \div Len(rs)) * 100, 1)
  ELSE Frac(0, 1)

\* success_rate = (successful / len(results)) * 100 if results else 0.0
SuccessRate(rs) ==
  IF rs # <<>> THEN FracTimes(FracDiv(CountSuccess(rs), Len(rs)), 100)
  ELSE Frac(0, 1)

\* What one run of the artifact on one url can end in
BatchContents ==
  { [len |-> 500, word |-> "Description"],
    [len |-> 501, word |-> "about"] }

BatchRuns ==
  { [kind |-> "timeout", returncode |-> -1, found |-> NoFile],
    [kind |-> "error", returncode |-> -1, found |-> NoFile],
    [kind |-> "exit", returncode |-> 1, found |-> NoFile],
    [kind |-> "exit", returncode |-> 0, found |-> NoFile] } \cup
  [kind : {"exit"}, returncode : {0}, found : BatchContents]

\* The result dict of one iteration of the harness loop
TestResult(url, s, run) ==
  LET base == [url |-> url, job_id |-> JobIdOf(url, s), success |-> FALSE,
               has_output_file |-> FALSE, description_length |-> 0,
               error |-> <<"None">>]
  IN  IF run.kind = "timeout" THEN [base EXCEPT !.error = <<"Timeout (90s)">>]
      ELSE IF run.kind = "error" THEN [base EXCEPT !.error = <<"exception">>]
      ELSE IF run.returncode # 0
           THEN [base EXCEPT !.error = <<"Exit code", run.returncode>>]
      ELSE IF run.found = NoFile
           THEN [base EXCEPT !.error = <<"No output file generated">>]
      ELSE IF run.found.len > BatchFloor
           THEN [base EXCEPT !.has_output_file = TRUE,
                             !.description_length = run.found.len,
                             !.success = TRUE]
      ELSE [base EXCEPT !.has_output_file = TRUE,
                        !.description_length = run.found.len,
                        !.error = <<"Output too short", run.found.len>>]

\* test_urls: Optional[List[str]] = None
NoneUrls == [none |-> TRUE, list |-> <<>>]

RECURSIVE SeqsUpTo(_, _)
SeqsUpTo(S, n) ==
  IF n = 0 THEN {<<>>}
  ELSE LET shorter == SeqsUpTo(S, n - 1)
       IN  shorter \cup {Append(q, x) : q \in {r \in shorter : Len(r) = n - 1}, x \in S}

\* Entry of the harness: default url list, early return on an empty one
BatchStart ==
  /\ mode \in {"batch", "generate"} /\ bpc = "Called"
  /\ LET urls == IF arg_urls.none THEN TEST_URLS(site) ELSE arg_urls.list
     IN  /\ test_urls' = urls
         /\ IF urls = <<>>
            THEN bpc' = "Done" /\ success_rate' = Frac(0, 1)
            ELSE bpc' = "Testing" /\ UNCHANGED success_rate
  /\ UNCHANGED <<restVars, mode, valVars, site, arg_urls, results>>

\* BatchTest letting a timeout of the subprocess escape the loop
BatchTest_AbortOnTimeout ==
  /\ mode \in {"batch", "generate"} /\ bpc = "Testing"
  /\ \E run \in BatchRuns :
       LET i == Len(results) + 1
           rs == Append(results, TestResult(test_urls[i], site, run))
       IN  IF run.kind = "timeout"
           THEN /\ bpc' = "Done" /\ success_rate' = SuccessRate(results)
                /\ UNCHANGED results
           ELSE /\ results' = rs
                /\ IF i = Len(test_urls)
                   THEN bpc' = "Done" /\ success_rate' = SuccessRate(rs)
                   ELSE bpc' = "Testing" /\ UNCHANGED success_rate
  /\ UNCHANGED <<restVars, mode, valVars, site, arg_urls, test_urls>>

\* One iteration of the harness loop; after the last url the rate is
\* computed and returned
BatchTest ==
  /\ mode \in {"batch", "generate"} /\ bpc = "Testing"
  /\ \E run \in BatchRuns :
       LET i == Len(results) + 1
           rs == Append(results, TestResult(test_urls[i], site, run))
       IN  /\ results' = rs
           /\ IF i = Len(test_urls)
              THEN bpc' = "Done" /\ success_rate' = SuccessRate(rs)
              ELSE bpc' = "Testing" /\ UNCHANGED success_rate
  /\ UNCHANGED <<restVars, mode, valVars, site, arg_urls, test_urls>>

InitBatch ==
  /\ \/ arg_urls = NoneUrls /\ site \in JobSites
     \/ /\ arg_urls \in [none : {FALSE}, list : SeqsUpTo(UrlPool, MaxUrls)]
        /\ site = "linkedin"
  /\ test_urls = <<>>
  /\ results = <<>>
  /\ bpc = "Called"
  /\ success_rate = Frac(0, 1)

\* ----------------------------------------- main, generate: run_generation_mode
NoUrl == <<>>
NoScript == <<"<no file>">>
NoReport == [site |-> "None", success_rate |-> Frac(0, 1), results |-> <<>>,
             written |-> FALSE]

SetMax(S) == CHOOSE x \in S : \A y \in S : x >= y

\* DetectJobSite returning the last profile that matches
DetectJobSite_LastMatch(url) ==
  LET hits == {k \in 1..Len(SiteOrder) : UrlPatternMatches(SiteOrder[k], url)}
  IN  IF hits = {} THEN "None" ELSE SiteOrder[SetMax(hits)]

\* detect_job_site(url): the first profile whose url_pattern matches;
\* "None" stands for the ValueError
DetectJobSite(url) ==
  LET hits == {k \in 1..Len(SiteOrder) : UrlPatternMatches(SiteOrder[k], url)}
  IN  IF hits = {} THEN "None" ELSE SiteOrder[SetMin(hits)]

\* success_rate < 85.0
BelowTarget(rate) == rate.num < 85 * rate.den

\* generate_test_report / save_test_report: what the report file holds
TestReport(s, rate, rs) ==
  [site |-> s, success_rate |-> rate, results |-> rs, written |-> TRUE]

\* run_generation_mode from loading the log to writing the artifact, then the
\* test of discovery_log.get("url"): with a url the validation loop is
\* entered with max_attempts=3, without one validation is skipped with a
\* warning and the path is returned. Every ValueError and oracle error on
\* the way reaches the handler of main.
Generate ==
  /\ mode = "generate" /\ gpc = "Generating"
  /\ \E generated \in {"ok", "APIError", "ValueError"} :
       LET siteKnown == log_site # "None" \/ log_url # NoUrl
       IN  IF ~siteKnown \/ generated # "ok"
           THEN /\ gpc' = "Exited" /\ exit_status' = 1
                /\ UNCHANGED <<script, pc>>
           ELSE /\ script' = <<Shebang, "generated">>
                /\ IF log_url # NoUrl
                   THEN gpc' = "Validating" /\ pc' = "Running"
                   ELSE gpc' = "Returned" /\ UNCHANGED pc
                /\ UNCHANGED exit_status
  /\ UNCHANGED <<mode, batchVars, probeVars, expandVars, discVars, moreVars, multi_job_test, log_site, log_url, report,
                 warned, max_attempts, discovery_log, attempt, result,
                 job_descriptions, proc, content, error_message, fix_prompt,
                 log, executions, repairs, writes, exc>>

\* validate_generated_script has returned or raised inside run_generation_mode
ValidationReturns ==
  /\ mode = "generate" /\ gpc = "Validating"
  /\ pc \in {"Passed", "Failed", "Raised"}
  /\ IF pc = "Passed"
     THEN gpc' = "Returned" /\ UNCHANGED exit_status
     ELSE gpc' = "Exited" /\ exit_status' = 1
  /\ UNCHANGED <<mode, valVars, batchVars, probeVars, expandVars, discVars, moreVars, multi_job_test, log_site, log_url,
                 report, warned>>

\* main after run_generation_mode returned: without --multi-job-test, or
\* with a log that names no site, the command ends; otherwise the harness
\* is called on the artifact with the site of the log
MainTest ==
  /\ mode = "generate" /\ gpc = "Returned"
  /\ IF multi_job_test /\ log_site # "None"
     THEN /\ gpc' = "Testing" /\ bpc' = "Called"
          /\ site' = log_site /\ arg_urls' = NoneUrls
          /\ UNCHANGED exit_status
     ELSE /\ gpc' = "Exited" /\ exit_status' = 0
          /\ UNCHANGED <<bpc, site, arg_urls>>
  /\ UNCHANGED <<mode, valVars, probeVars, expandVars, discVars, moreVars, test_urls, results, success_rate,
                 multi_job_test, log_site, log_url, report, warned>>

\* MainReport treating the 85% target as a gate
MainReport_Gate ==
  /\ mode = "generate" /\ gpc = "Testing" /\ bpc = "Done"
  /\ \E saved \in BOOLEAN :
       IF saved
       THEN /\ report' = TestReport(site, success_rate, results)
            /\ warned' = BelowTarget(success_rate)
            /\ exit_status' = IF BelowTarget(success_rate) THEN 1 ELSE 0
       ELSE /\ exit_status' = 1
            /\ UNCHANGED <<report, warned>>
  /\ gpc' = "Exited"
  /\ UNCHANGED <<mode, valVars, batchVars, probeVars, expandVars, discVars, moreVars, multi_job_test, log_site, log_url>>

\* main after the harness returned: save_test_report (an OSError reaches the
\* handler of main), the prints, the warning below 85.0
MainReport ==
  /\ mode = "generate" /\ gpc = "Testing" /\ bpc = "Done"
  /\ \E saved \in BOOLEAN :
       IF saved
       THEN /\ report' = TestReport(site, success_rate, results)
            /\ warned' = BelowTarget(success_rate)
            /\ exit_status' = 0
       ELSE /\ exit_status' = 1
            /\ UNCHANGED <<report, warned>>
  /\ gpc' = "Exited"
  /\ UNCHANGED <<mode, valVars, batchVars, probeVars, expandVars, discVars, moreVars, multi_job_test, log_site, log_url>>

LogSites == JobSites \cup {"None"}
LogUrls == UrlPool \cup {NoUrl}

InitGenerate ==
  /\ gpc = "Generating"
  /\ multi_job_test \in BOOLEAN
  /\ log_site \in LogSites
  /\ log_url \in LogUrls
  /\ report = NoReport /\ warned = FALSE /\ exit_status = -1
  /\ max_attempts = 3
  /\ discovery_log \in DiscoveryLogs
  /\ attempt = 1 /\ pc = "Idle" /\ result = NoResult
  /\ script = NoScript
  /\ job_descriptions \in InitialDirs
  /\ proc = NoProc /\ content = NoContent /\ error_message = <<"<none>">>
  /\ fix_prompt = NoPrompt /\ log = <<>>
  /\ executions = 0 /\ repairs = 0 /\ writes = 0 /\ exc = "none"

\* ------------------------------------------------ test_extraction_strategies
ProbeFields == {"title", "company", "location", "description"}

\* css_selectors
css_selectors(f) ==
  CASE f = "title" ->
         <<"h1", "h1.title", "[data-test-id='job-title']", ".job-title">>
    [] f = "company" ->
         <<"a[data-tracking-control-name*='topcard']", ".company-name",
           "[data-company-name]">>
    [] f = "location" ->
         <<".topcard__flavor", ".location", "[data-job-location]">>
    [] f = "description" ->
         <<".description", ".job-description", "[class*='description']",
           ".show-more-less-html__markup">>
    [] OTHER -> <<>>

\* A text by its length and the length of its strip()
Text(n, m) == [kind |-> "text", len |-> n, stripped |-> m]
Raised == [kind |-> "raise", len |-> 0, stripped |-> 0]
NoneText == [kind |-> "none", len |-> 0, stripped |-> 0]

\* What page.evaluate of a js strategy comes back with: an exception, null,
\* or a string
JsOutcomes ==
  {Raised, NoneText, Text(10, 10), Text(11, 11), Text(100, 100),
   Text(101, 101), Text(150, 150)}

\* What wait_for_selector and text_content of one selector come back with: a
\* timeout or another exception, None, or a text with its surrounding space
CssOutcomes ==
  {Raised, NoneText, Text(9, 9), Text(10, 10), Text(14, 10), Text(50, 50),
   Text(60, 11), Text(150, 150)}

\* if result and len(str(result).strip()) > 10
Kept(o) == o.kind = "text" /\ o.len > 0 /\ o.stripped > 10

\* Confidence looking at the length only
Confidence_KindBlind(strategy, length) ==
  IF length > 100 THEN "high" ELSE "medium"

\* the "confidence" entry of a result
Confidence(strategy, length) ==
  IF strategy = "javascript_evaluation"
  THEN (IF length > 100 THEN "high" ELSE "medium")
  ELSE (IF length > 50 THEN "medium" ELSE "low")

\* confidence_order
confidence_order(c) ==
  CASE c = "high" -> 3 [] c = "medium" -> 2 [] c = "low" -> 1 [] OTHER -> 0

\* The result dict a kept attempt appends; selector 0 is the js strategy
StrategyResult(strategy, sel, o) ==
  [strategy |-> strategy, selector |-> sel, success |-> TRUE,
   sample |-> Min(o.len, 200), length |-> o.len,
   confidence |-> Confidence(strategy, o.len)]

\* SortByConfidence leaving the list in discovery order
SortByConfidence_Unsorted(rs) == rs

\* results.sort(key=confidence_order, reverse=True): stable, so equal keys
\* keep their order
SortByConfidence(rs) ==
  LET tier(k) == SelectSeq(rs, LAMBDA r : confidence_order(r.confidence) = k)
  IN  tier(3) \o tier(2) \o tier(1)

\* The js strategy of the field, inside its try
ProbeJs ==
  /\ mode = "probe" /\ ppc = "Js"
  /\ \E o \in JsOutcomes :
       /\ attempts' = Append(attempts, [strategy |-> "javascript_evaluation",
                                        selector |-> 0, outcome |-> o])
       /\ probe_results' =
            IF Kept(o)
            THEN Append(probe_results, StrategyResult("javascript_evaluation", 0, o))
            ELSE probe_results
  /\ ppc' = "Css" /\ selector_i' = 1
  /\ UNCHANGED <<mode, valVars, batchVars, genVars, expandVars, discVars, moreVars, field_name>>

\* ProbeCss leaving the loop at the first selector that raises
ProbeCss_Break ==
  /\ mode = "probe" /\ ppc = "Css"
  /\ \E o \in CssOutcomes :
       LET rs == IF Kept(o)
                 THEN Append(probe_results, StrategyResult("css_selector", selector_i, o))
                 ELSE probe_results
       IN  /\ attempts' = Append(attempts, [strategy |-> "css_selector",
                                            selector |-> selector_i, outcome |-> o])
           /\ IF selector_i = Len(css_selectors(field_name)) \/ o = Raised
              THEN probe_results' = SortByConfidence(rs) /\ ppc' = "Done"
              ELSE probe_results' = rs /\ ppc' = "Css"
  /\ selector_i' = selector_i + 1
  /\ UNCHANGED <<mode, valVars, batchVars, genVars, expandVars, discVars, moreVars, field_name>>

\* One iteration of the selector loop, inside its try; after the last
\* selector the list is sorted and returned
ProbeCss ==
  /\ mode = "probe" /\ ppc = "Css"
  /\ \E o \in CssOutcomes :
       LET rs == IF Kept(o)
                 THEN Append(probe_results, StrategyResult("css_selector", selector_i, o))
                 ELSE probe_results
       IN  /\ attempts' = Append(attempts, [strategy |-> "css_selector",
                                            selector |-> selector_i, outcome |-> o])
           /\ IF selector_i = Len(css_selectors(field_name))
              THEN probe_results' = SortByConfidence(rs) /\ ppc' = "Done"
              ELSE probe_results' = rs /\ ppc' = "Css"
  /\ selector_i' = selector_i + 1
  /\ UNCHANGED <<mode, valVars, batchVars, genVars, expandVars, discVars, moreVars, field_name>>

InitProbe ==
  /\ field_name \in ProbeFields
  /\ ppc = "Js" /\ selector_i = 1
  /\ probe_results = <<>> /\ attempts = <<>>

\* ----------------------------------------------------- test_show_more_button
\* button_selectors
button_selectors ==
  <<"button[aria-expanded='false']", "button:has-text('Show more')",
    ".show-more-less-html__button--more",
    "button[data-tracking-control-name*='show-more']">>

\* Lengths of the description element: collapsed and expanded
PageLengths == {-1, 200, 800}

\* el ? el.textContent.length : 0
MeasuredLength(d) == IF d = -1 THEN 0 ELSE d

\* How one iteration over a selector can go: wait_for_selector raises
\* (timeout), it returns nothing, click raises, the click is made and the
\* settle wait raises, the click is made and the wait ends
TriggerOutcomes == {"timeout", "no_button", "click_raises", "settle_raises", "clicked"}

\* What a click can do to the description: nothing, or expand it
AfterClick(d) == {d, 800}

NoStrategy ==
  [keys |-> {}, needed |-> FALSE, selector |-> 0, before_length |-> 0,
   after_length |-> 0]

\* return {"needed": False}
NotNeededBare == [NoStrategy EXCEPT !.keys = {"needed"}]

\* return {"needed": False, "before_length": desc_before}
NotNeeded(before) ==
  [NoStrategy EXCEPT !.keys = {"needed", "before_length"},
                     !.before_length = before]

\* the dict returned after a click
Needed(sel, before, after) ==
  [keys |-> {"needed", "selector", "before_length", "after_length",
             "impact", "strategy"},
   needed |-> TRUE, selector |-> sel, before_length |-> before,
   after_length |-> after]

\* MeasureBefore letting the exception of page.evaluate escape
MeasureBefore_Raises ==
  /\ mode = "expand" /\ xpc = "Baseline"
  /\ \E raises \in BOOLEAN :
       IF raises
       THEN /\ xpc' = "Raised"
            /\ UNCHANGED <<desc_before, show_more_strategy>>
       ELSE /\ desc_before' = MeasuredLength(page_desc)
            /\ xpc' = "Triggers"
            /\ UNCHANGED show_more_strategy
  /\ UNCHANGED <<mode, valVars, batchVars, genVars, probeVars, discVars, moreVars, page_desc,
                 button_i, clicked, clicked_selector, trigger_log>>

\* The baseline measurement inside its try; the bare except returns
MeasureBefore ==
  /\ mode = "expand" /\ xpc = "Baseline"
  /\ \E raises \in BOOLEAN :
       IF raises
       THEN /\ show_more_strategy' = NotNeededBare
            /\ xpc' = "Done"
            /\ UNCHANGED desc_before
       ELSE /\ desc_before' = MeasuredLength(page_desc)
            /\ xpc' = "Triggers"
            /\ UNCHANGED show_more_strategy
  /\ UNCHANGED <<mode, valVars, batchVars, genVars, probeVars, discVars, moreVars, page_desc,
                 button_i, clicked, clicked_selector, trigger_log>>

\* One iteration of the loop over button_selectors inside its try; a made
\* click leaves the loop, and after the last selector without one the
\* function returns
TryTrigger ==
  /\ mode = "expand" /\ xpc = "Triggers"
  /\ \E o \in TriggerOutcomes :
       /\ trigger_log' = Append(trigger_log, o)
       /\ IF o \in {"settle_raises", "clicked"}
          THEN page_desc' \in AfterClick(page_desc)
          ELSE UNCHANGED page_desc
       /\ IF o = "clicked"
          THEN /\ clicked' = TRUE /\ clicked_selector' = button_i
               /\ xpc' = "Remeasure"
               /\ UNCHANGED show_more_strategy
          ELSE /\ UNCHANGED <<clicked, clicked_selector>>
               /\ IF button_i = Len(button_selectors)
                  THEN xpc' = "Done" /\ show_more_strategy' = NotNeeded(desc_before)
                  ELSE xpc' = "Triggers" /\ UNCHANGED show_more_strategy
  /\ button_i' = button_i + 1
  /\ UNCHANGED <<mode, valVars, batchVars, genVars, probeVars, discVars, moreVars, desc_before>>

\* The measurement after the click inside its try, and the return
MeasureAfter ==
  /\ mode = "expand" /\ xpc = "Remeasure"
  /\ \E raises \in BOOLEAN :
       LET desc_after == IF raises THEN desc_before ELSE MeasuredLength(page_desc)
       IN  show_more_strategy' = Needed(clicked_selector, desc_before, desc_after)
  /\ xpc' = "Done"
  /\ UNCHANGED <<mode, valVars, batchVars, genVars, probeVars, discVars, moreVars, page_desc,
                 desc_before, button_i, clicked, clicked_selector, trigger_log>>

InitExpand ==
  /\ xpc = "Baseline" /\ page_desc \in PageLengths
  /\ desc_before = 0 /\ button_i = 1
  /\ clicked = FALSE /\ clicked_selector = 0 /\ trigger_log = <<>>
  /\ show_more_strategy = NoStrategy

\* -------------------------------------------------- main, discover branch
\* https://www.linkedin.com/jobs/search and https://example.com/careers/42
LinkedInSearchUrl == <<"https://www.", "linkedin.com", "/jobs", "/search">>
OtherUrl == <<"https://", "example.com", "/careers", "/42">>
\* https://www.linkedin.com/jobs/search?jk=abc123
LinkedInSearchJkUrl ==
  <<"https://www.", "linkedin.com", "/jobs", "/search", "?jk=", "abc123">>
DiscoverUrls ==
  {LinkedInUrl, IndeedUrl, LinkedInSearchUrl, LinkedInSearchJkUrl, OtherUrl}

\* site as main chooses it (lines 1725-1730): the hint when given, else
\* detect_job_site; "None" stands for the ValueError of detect_job_site
ResolvedSite(url, s) ==
  IF s # "None" THEN s
  ELSE IF DetectJobSite(url) \in JobSites THEN DetectJobSite(url)
  ELSE "None"

NoLog == [none |-> TRUE]
NoSamples == [f \in {} |-> 0]
NoResponse == [form |-> "none", json |-> "none", claims |-> FALSE]

\* for field in ['title', 'company', 'location', 'description']
FieldOrder == <<"title", "company", "location", "description">>

\* The operations of one run in the order of the code
DiscoveryOrder ==
  <<"goto", "begin title", "end title", "begin company", "end company",
    "begin location", "end location", "begin description", "end description",
    "show_more", "samples", "oracle">>

\* Lengths of the outerHTML of an element
HtmlLengths == {300, 2000}

\* html[:500]: CaptureSample keeping the whole outerHTML
CaptureSample_Whole(len) == len

\* html[:500]
CaptureSample(len) == Min(len, 500)

\* Texts the oracle can answer with. form: a fence around {...} is found by
\* the regular expression, or not. json: what json.loads makes of the text
\* it is given (the group of the fence, or the whole text): a dict, a list,
\* a str, an int, or a JSONDecodeError. claims: the dict has entries of its
\* own for the keys the run sets.
OracleAnswers ==
  [form : {"fenced"}, json : {"dict", "invalid"}, claims : BOOLEAN]
    \cup [form : {"bare"}, json : {"dict", "list", "str", "int", "invalid"},
          claims : BOOLEAN]

\* The dict in the oracle's text
OracleDict(r) ==
  IF r.claims
  THEN [observations |-> <<"narrative:observed">>,
        job_id |-> "oracle-id",
        url |-> <<"https://", "oracle.example">>,
        tested_strategies |-> [f \in ProbeFields |-> TRUE],
        show_more_strategy |-> [needed |-> TRUE],
        html_samples |-> [f \in ProbeFields |-> 9999],
        site |-> "oracle-site",
        timestamp |-> "oracle-time",
        script_version |-> "9.9"]
  ELSE [observations |-> <<"narrative:observed">>]

\* Lines 892-899: the structured fallback
FallbackLog(id, url) ==
  [job_id |-> id, url |-> url, observations |-> <<"response_text">>,
   data_extraction |-> <<>>, edge_cases |-> <<>>,
   raw_response |-> <<"response_text">>]

\* Lines 882-899: what discovery_log is bound to after the try; a list, str
\* or int when json.loads returns one
ParseResponse(r, id, url) ==
  IF r.json = "invalid" THEN [type |-> "dict", value |-> FallbackLog(id, url)]
  ELSE IF r.json = "dict" THEN [type |-> "dict", value |-> OracleDict(r)]
  ELSE [type |-> r.json, value |-> NoLog]

\* Assign with the entries of the oracle kept where both have one
Assign_OracleWins(d, new) ==
  [k \in DOMAIN d \cup DOMAIN new |-> IF k \in DOMAIN d THEN d[k] ELSE new[k]]

\* d[k] = v for every entry of new
Assign(d, new) ==
  [k \in DOMAIN d \cup DOMAIN new |-> IF k \in DOMAIN new THEN new[k] ELSE d[k]]

\* Lines 902-908
RunEntries(id, url, t, sm, hs) ==
  [job_id |-> id, url |-> url, tested_strategies |-> t,
   show_more_strategy |-> sm, html_samples |-> hs]

\* save_discovery_log, lines 251-253
SaveEntries(s) ==
  [site |-> s, timestamp |-> "now", script_version |-> "1.1"]

\* DiscoverCall launching the browser before looking at the url
DiscoverCall_LaunchFirst ==
  /\ mode = "discover" /\ dpc = "Called"
  /\ LET s == ResolvedSite(job_url, site_arg)
         id == IF s = "None" THEN "None" ELSE JobIdOf(job_url, s)
     IN  IF s = "None"
         THEN /\ dpc' = "Raised" /\ d_error' = "Unsupported job site"
              /\ browser' = "closed" /\ UNCHANGED job_id
         ELSE IF id = "None"
         THEN /\ dpc' = "Raised"
              /\ d_error' = "Could not extract job ID from URL"
              /\ browser' = "closed" /\ UNCHANGED job_id
         ELSE /\ job_id' = id
              /\ \E launched \in BOOLEAN :
                   IF launched
                   THEN dpc' = "Launched" /\ browser' = "open" /\ UNCHANGED d_error
                   ELSE dpc' = "Raised" /\ d_error' = "launch failed"
                        /\ UNCHANGED browser
  /\ UNCHANGED <<mode, valVars, batchVars, genVars, probeVars, expandVars, moreVars,
                 job_url, site_arg, navigations, page_ops, oracle_calls,
                 field_i, active, events, tested, show_more, html_samples,
                 response, d_log, persisted>>

\* main 1724-1730 and run_discovery_mode 752-771: the site, the job id, the
\* ValueError when there is none, and only then the browser launch
DiscoverCall ==
  /\ mode = "discover" /\ dpc = "Called"
  /\ LET s == ResolvedSite(job_url, site_arg)
         id == IF s = "None" THEN "None" ELSE JobIdOf(job_url, s)
     IN  IF s = "None"
         THEN /\ dpc' = "Raised" /\ d_error' = "Unsupported job site"
              /\ UNCHANGED <<browser, job_id>>
         ELSE IF id = "None"
         THEN /\ dpc' = "Raised"
              /\ d_error' = "Could not extract job ID from URL"
              /\ UNCHANGED <<browser, job_id>>
         ELSE /\ job_id' = id
              /\ \E launched \in BOOLEAN :
                   IF launched
                   THEN dpc' = "Launched" /\ browser' = "open" /\ UNCHANGED d_error
                   ELSE dpc' = "Raised" /\ d_error' = "launch failed"
                        /\ UNCHANGED browser
  /\ UNCHANGED <<mode, valVars, batchVars, genVars, probeVars, expandVars, moreVars,
                 job_url, site_arg, navigations, page_ops, oracle_calls,
                 field_i, active, events, tested, show_more, html_samples,
                 response, d_log, persisted>>

\* Lines 776-784: goto, the settle wait, content, title, the modal check; an
\* exception leaves through the finally that closes the browser
DiscoverLoad ==
  /\ mode = "discover" /\ dpc = "Launched"
  /\ navigations' = navigations + 1
  /\ events' = Append(events, "goto")
  /\ \E loaded \in BOOLEAN :
       IF loaded
       THEN /\ dpc' = "Loaded" /\ page_ops' = page_ops + 3
            /\ UNCHANGED <<browser, d_error>>
       ELSE /\ dpc' = "Raised" /\ d_error' = "navigation failed"
            /\ browser' = "closed" /\ UNCHANGED page_ops
  /\ UNCHANGED <<mode, valVars, batchVars, genVars, probeVars, expandVars, moreVars,
                 job_url, site_arg, job_id, oracle_calls, field_i, active,
                 tested, show_more, html_samples, response, d_log, persisted>>

\* DiscoverProbeBegin starting the next probe without awaiting the last one
DiscoverProbeBegin_Gather ==
  /\ mode = "discover" /\ dpc = "Loaded"
  /\ field_i <= Len(FieldOrder)
  /\ active' = active \cup {FieldOrder[field_i]}
  /\ events' = Append(events, "begin " \o FieldOrder[field_i])
  /\ field_i' = field_i + 1
  /\ UNCHANGED <<mode, valVars, batchVars, genVars, probeVars, expandVars, moreVars,
                 dpc, job_url, site_arg, job_id, browser, navigations,
                 page_ops, oracle_calls, d_error, tested, show_more,
                 html_samples, response, d_log, persisted>>

\* Line 801: test_extraction_strategies is called for the next field; the
\* loop is at this line only when the previous call has returned
DiscoverProbeBegin ==
  /\ mode = "discover" /\ dpc = "Loaded"
  /\ field_i <= Len(FieldOrder) /\ active = {}
  /\ active' = active \cup {FieldOrder[field_i]}
  /\ events' = Append(events, "begin " \o FieldOrder[field_i])
  /\ field_i' = field_i + 1
  /\ UNCHANGED <<mode, valVars, batchVars, genVars, probeVars, expandVars, moreVars,
                 dpc, job_url, site_arg, job_id, browser, navigations,
                 page_ops, oracle_calls, d_error, tested, show_more,
                 html_samples, response, d_log, persisted>>

\* Lines 801-809: the awaited call returns its list, empty or not
DiscoverProbeEnd ==
  /\ mode = "discover" /\ dpc = "Loaded"
  /\ \E f \in active, worked \in BOOLEAN :
       /\ tested' = [tested EXCEPT ![f] = worked]
       /\ active' = active \ {f}
       /\ events' = Append(events, "end " \o f)
  /\ page_ops' = page_ops + 1
  /\ UNCHANGED <<mode, valVars, batchVars, genVars, probeVars, expandVars, moreVars,
                 dpc, job_url, site_arg, job_id, browser, navigations,
                 oracle_calls, d_error, field_i, show_more, html_samples,
                 response, d_log, persisted>>

\* Lines 811-817: test_show_more_button, after the loop over the fields
DiscoverExpand ==
  /\ mode = "discover" /\ dpc = "Loaded"
  /\ field_i > Len(FieldOrder) /\ active = {}
  /\ \E needed \in BOOLEAN : show_more' = [needed |-> needed]
  /\ events' = Append(events, "show_more")
  /\ page_ops' = page_ops + 1
  /\ dpc' = "Expanded"
  /\ UNCHANGED <<mode, valVars, batchVars, genVars, probeVars, expandVars, moreVars,
                 job_url, site_arg, job_id, browser, navigations,
                 oracle_calls, d_error, field_i, active, tested,
                 html_samples, response, d_log, persisted>>

\* Lines 819-823, capture_html_samples: for each field with a non-empty
\* list the outerHTML is read inside a try; a field whose read raises or
\* gives null gets no entry
DiscoverSamples ==
  /\ mode = "discover" /\ dpc = "Expanded"
  /\ \E got \in SUBSET {f \in ProbeFields : tested[f]} :
       \E len \in [got -> HtmlLengths] :
         html_samples' = [f \in got |-> CaptureSample(len[f])]
  /\ events' = Append(events, "samples")
  /\ page_ops' = page_ops + 1
  /\ dpc' = "Sampled"
  /\ UNCHANGED <<mode, valVars, batchVars, genVars, probeVars, expandVars, moreVars,
                 job_url, site_arg, job_id, browser, navigations,
                 oracle_calls, d_error, field_i, active, tested, show_more,
                 response, d_log, persisted>>

\* Lines 826-916 and main 1740-1745: the oracle call, the parse of its
\* answer, the entries set on the result (a TypeError when the result is
\* not a dict), the return through the finally, and save_discovery_log
DiscoverAnalyze ==
  /\ mode = "discover" /\ dpc = "Sampled"
  /\ oracle_calls' = oracle_calls + 1
  /\ events' = Append(events, "oracle")
  /\ browser' = "closed"
  /\ \E answered \in BOOLEAN, r \in OracleAnswers :
       IF ~answered
       THEN /\ r = CHOOSE x \in OracleAnswers : TRUE
            /\ dpc' = "Raised" /\ d_error' = "oracle call failed"
            /\ UNCHANGED <<response, d_log, persisted>>
       ELSE LET parsed == ParseResponse(r, job_id, job_url)
                returned == Assign(parsed.value,
                                   RunEntries(job_id, job_url, tested,
                                              show_more, html_samples))
                saved == Assign(returned,
                                SaveEntries(ResolvedSite(job_url, site_arg)))
            IN  /\ response' = r
                /\ IF parsed.type = "dict"
                   THEN /\ dpc' = "Done"
                        /\ d_log' = saved
                        /\ persisted' = saved
                        /\ UNCHANGED d_error
                   ELSE /\ dpc' = "Raised" /\ d_error' = "TypeError"
                        /\ UNCHANGED <<d_log, persisted>>
  /\ UNCHANGED <<mode, valVars, batchVars, genVars, probeVars, expandVars, moreVars,
                 job_url, site_arg, job_id, navigations, page_ops, field_i,
                 active, tested, show_more, html_samples>>

InitDiscover ==
  /\ dpc = "Called" /\ job_url \in DiscoverUrls
  /\ site_arg \in JobSites \cup {"None"}
  /\ job_id = "None" /\ browser = "none" /\ navigations = 0 /\ page_ops = 0
  /\ oracle_calls = 0 /\ d_error = "none"
  /\ field_i = 1 /\ active = {} /\ events = <<>>
  /\ tested = [f \in ProbeFields |-> FALSE]
  /\ show_more = [needed |-> FALSE] /\ html_samples = NoSamples
  /\ response = NoResponse /\ d_log = NoLog /\ persisted = NoLog

\* -------------------------------------------- detect_job_site, extract_job_id
\* https://www.linkedin.com/jobs/view/4300362234
ScenarioAUrl ==
  <<"https://www.", "linkedin.com", "/jobs", "/view/", "4300362234">>
\* https://www.indeed.com/viewjob?jk=d7a8476f98b7ec44
ScenarioBUrl ==
  <<"https://www.", "indeed.com", "/viewjob", "?jk=", "d7a8476f98b7ec44">>
\* https://www.glassdoor.com/job-listing/engineer-JV_IC1234
GlassdoorUrl ==
  <<"https://www.", "glassdoor.com", "/job-listing", "/engineer", "-JV_IC",
    "1234">>
\* https://www.LINKEDIN.COM/jobs/view/4300362234
UpperCaseUrl ==
  <<"https://www.", "LINKEDIN.COM", "/jobs", "/view/", "4300362234">>
\* https://www.indeed.com/viewjob?jk=abc123&ref=linkedin.com/jobs
TwoProfilesUrl ==
  <<"https://www.", "indeed.com", "/viewjob", "?jk=", "abc123", "&ref=",
    "linkedin.com", "/jobs">>
\* https://www.glassdoor.com/job-listing?src=indeed.com/viewjob&jk=abc123
LaterProfilesUrl ==
  <<"https://www.", "glassdoor.com", "/job-listing", "?src=", "indeed.com",
    "/viewjob", "&jk=", "abc123">>
RegistryUrls ==
  {LinkedInUrl, IndeedUrl, ScenarioAUrl, ScenarioBUrl, GlassdoorUrl,
   UpperCaseUrl, TwoProfilesUrl, LaterProfilesUrl, LinkedInSearchUrl,
   LinkedInSearchJkUrl, OtherUrl}

\* extract_job_id(url, site): auto-detection when site is None, None when
\* detection fails or the pattern does not match
ExtractJobId(url, s) ==
  LET chosen == IF s = "None" THEN DetectJobSite(url) ELSE s
  IN  IF chosen = "None" THEN "None" ELSE JobIdOf(url, chosen)

\* one call of detect_job_site(reg_url)
CallDetect ==
  /\ mode = "registry" /\ Len(detected) < MaxCalls
  /\ detected' = Append(detected, DetectJobSite(reg_url))
  /\ UNCHANGED <<mode, valVars, batchVars, genVars, probeVars, expandVars,
                 discVars, synthVars, tailVars, reg_url, extracted>>

\* one call of extract_job_id(reg_url)
CallExtract ==
  /\ mode = "registry" /\ Len(extracted) < MaxCalls
  /\ extracted' = Append(extracted, ExtractJobId(reg_url, "None"))
  /\ UNCHANGED <<mode, valVars, batchVars, genVars, probeVars, expandVars,
                 discVars, synthVars, tailVars, reg_url, detected>>

InitRegistry ==
  /\ reg_url \in RegistryUrls /\ detected = <<>> /\ extracted = <<>>

\* The variables of the entry point that is not running keep these values
\* ---------------------------------- run_generation_mode, log to artifact
\* Entries of tested_strategies as test_extraction_strategies writes them
\* (the keys read here): the scripted strategy of a field, high or medium,
\* and a css strategy
JsHigh(f) ==
  [strategy |-> "javascript_evaluation", confidence |-> "high",
   code |-> "js:" \o f]
JsMedium(f) ==
  [strategy |-> "javascript_evaluation", confidence |-> "medium",
   code |-> "js:" \o f]
CssMedium(f) ==
  [strategy |-> "css_selector", confidence |-> "medium", code |-> "None"]

\* The lists a field can have, sorted by confidence
StrategyLists(f) ==
  {<<>>, <<JsHigh(f), CssMedium(f)>>, <<JsMedium(f), CssMedium(f)>>,
   <<CssMedium(f)>>}

\* tested_strategies of the logs
TestedStrategies ==
  {t \in [ProbeFields -> UNION {StrategyLists(f) : f \in ProbeFields}] :
     \A f \in ProbeFields : t[f] \in StrategyLists(f)}

\* The discovery logs load_discovery_log can return: site and url as
\* discover wrote them or missing, job_id present or missing
SynthLogs ==
  [site : {"None", "linkedin", "indeed"},
   url : {NoUrl, LinkedInUrl, IndeedUrl, LinkedInSearchJkUrl},
   job_id : {"None", "4305267405"},
   tested_strategies : TestedStrategies]

\* The default of js_code_snippets.get(field, ...) in the prompt
Placeholder(f) == "placeholder:" \o f

NoSynthLog ==
  [site |-> "None", url |-> NoUrl, job_id |-> "None",
   tested_strategies |-> [f \in ProbeFields |-> <<>>]]
NoSnippets == [f \in {} |-> "None"]
NoGenPrompt == [f \in {} |-> "None"]

\* Index of the first strategy of the list that is scripted and, when
\* wanted, of high confidence; 0 when there is none
FirstScripted(list, highOnly) ==
  LET hits == {i \in 1..Len(list) :
                 /\ list[i].strategy = "javascript_evaluation"
                 /\ (highOnly => list[i].confidence = "high")}
  IN  IF hits = {} THEN 0 ELSE SetMin(hits)

\* Lines 1453-1468: the pass over high-confidence scripted strategies and,
\* only when it found nothing for any field, the pass over any scripted one
JsCodeSnippets(t) ==
  LET firstPass == {f \in DOMAIN t : FirstScripted(t[f], TRUE) # 0}
      secondPass == {f \in DOMAIN t : FirstScripted(t[f], FALSE) # 0}
  IN  IF firstPass # {}
      THEN [f \in firstPass |-> t[f][FirstScripted(t[f], TRUE)].code]
      ELSE [f \in secondPass |-> t[f][FirstScripted(t[f], FALSE)].code]

\* Lines 1474-1481: what the prompt shows for each field
GenerationPrompt(snippets) ==
  [f \in ProbeFields |->
     IF f \in DOMAIN snippets THEN snippets[f] ELSE Placeholder(f)]

\* The script taken out of the oracle's answer (lines 1535-1547, the same
\* three cases as ExtractCode). syntax: ast.parse fails, ast.parse passes
\* and compile fails, or both pass. evaluate: 'page.evaluate(' occurs.
\* functions: the five required functions are defined. ai_import: anthropic
\* or mcp is imported. hardcoded: the job id of the log occurs. loops:
\* page.wait_for_selector( and 'for selector in' both occur.
ScriptTexts ==
  [syntax : {"ok"}, evaluate : BOOLEAN, functions : BOOLEAN,
   ai_import : BOOLEAN, hardcoded : BOOLEAN, loops : BOOLEAN]
    \cup [syntax : {"ast_error", "compile_error"}, evaluate : BOOLEAN,
          functions : {TRUE}, ai_import : {FALSE}, hardcoded : {FALSE},
          loops : {FALSE}]

NoText == [syntax |-> "None", evaluate |-> FALSE, functions |-> FALSE,
           ai_import |-> FALSE, hardcoded |-> FALSE, loops |-> FALSE]
NoArtifact == [path |-> "None", text |-> NoText]

\* validate_script_structure: the issues found
StructureIssues(c) ==
  IF c.syntax = "ast_error" THEN {"Syntax error"}
  ELSE (IF c.functions THEN {} ELSE {"Missing required functions"})
         \cup (IF c.ai_import THEN {"should not import AI libraries"} ELSE {})

\* Lines 1428-1438: the site of the log, else the site of its url, else a
\* ValueError ("None")
SiteOfLog(l) ==
  IF l.site # "None" THEN l.site
  ELSE IF l.url # NoUrl /\ DetectJobSite(l.url) \in JobSites
  THEN DetectJobSite(l.url)
  ELSE "None"

\* Lines 1424-1518: load the log, settle the site, require the job id, pick
\* the snippets and build the prompt
SynthPrepare ==
  /\ mode = "synthesize" /\ spc = "Called"
  /\ IF SiteOfLog(s_log) = "None"
     THEN /\ spc' = "Raised"
          /\ s_error' = "Cannot determine site from discovery log"
          /\ UNCHANGED <<s_site, js_code_snippets, generation_prompt>>
     ELSE IF s_log.job_id = "None"
     THEN /\ spc' = "Raised"
          /\ s_error' = "Discovery log missing job_id field"
          /\ s_site' = SiteOfLog(s_log)
          /\ UNCHANGED <<js_code_snippets, generation_prompt>>
     ELSE /\ spc' = "Prompted"
          /\ s_site' = SiteOfLog(s_log)
          /\ js_code_snippets' = JsCodeSnippets(s_log.tested_strategies)
          /\ generation_prompt' =
               GenerationPrompt(JsCodeSnippets(s_log.tested_strategies))
          /\ UNCHANGED s_error
  /\ UNCHANGED <<mode, valVars, batchVars, genVars, probeVars, expandVars,
                 discVars, regVars, tailVars, s_log, s_oracle_calls, generated_script,
                 s_warnings, artifact, generated_scripts, s_config>>

\* SynthGenerate raising on the issues of validate_script_structure
SynthGenerate_StructureGate ==
  /\ mode = "synthesize" /\ spc = "Prompted"
  /\ s_oracle_calls' = s_oracle_calls + 1
  /\ \E answered \in BOOLEAN, c \in ScriptTexts :
       IF ~answered
       THEN /\ c = CHOOSE x \in ScriptTexts : TRUE
            /\ spc' = "Raised" /\ s_error' = "APIError"
            /\ UNCHANGED <<generated_script, s_warnings, artifact>>
       ELSE /\ generated_script' = c
            /\ IF c.syntax = "ast_error"
               THEN /\ spc' = "Raised"
                    /\ s_error' = "Generated script validation failed"
                    /\ UNCHANGED <<s_warnings, artifact>>
               ELSE IF ~c.evaluate
               THEN /\ spc' = "Raised"
                    /\ s_error' = "Generated script must use page.evaluate() pattern"
                    /\ UNCHANGED <<s_warnings, artifact>>
               ELSE IF StructureIssues(c) # {}
               THEN /\ spc' = "Raised"
                    /\ s_error' = "Script validation issues"
                    /\ UNCHANGED <<s_warnings, artifact>>
               ELSE /\ s_warnings' =
                         (IF c.loops THEN {"CSS selector loops"} ELSE {})
                    /\ IF c.syntax = "compile_error"
                       THEN /\ spc' = "Raised"
                            /\ s_error' = "Generated script has syntax error"
                            /\ UNCHANGED artifact
                       ELSE /\ spc' = "Written"
                            /\ artifact' = [path |-> s_site, text |-> c]
                            /\ UNCHANGED s_error
  /\ generated_scripts' =
       IF spc' = "Written"
       THEN [generated_scripts EXCEPT ![s_site] = generated_script']
       ELSE generated_scripts
  /\ UNCHANGED <<mode, valVars, batchVars, genVars, probeVars, expandVars,
                 discVars, regVars, tailVars, s_log, s_site, js_code_snippets,
                 generation_prompt, s_config>>

\* SynthGenerate writing the script before it is checked
SynthGenerate_WriteFirst ==
  /\ mode = "synthesize" /\ spc = "Prompted"
  /\ s_oracle_calls' = s_oracle_calls + 1
  /\ \E answered \in BOOLEAN, c \in ScriptTexts :
       IF ~answered
       THEN /\ c = CHOOSE x \in ScriptTexts : TRUE
            /\ spc' = "Raised" /\ s_error' = "APIError"
            /\ UNCHANGED <<generated_script, s_warnings, artifact>>
       ELSE /\ generated_script' = c
            /\ IF c.syntax = "ast_error"
               THEN /\ spc' = "Raised"
                    /\ s_error' = "Generated script validation failed"
                    /\ UNCHANGED <<s_warnings, artifact>>
               ELSE IF ~c.evaluate
               THEN /\ spc' = "Raised"
                    /\ s_error' = "Generated script must use page.evaluate() pattern"
                    /\ UNCHANGED <<s_warnings, artifact>>
               ELSE /\ s_warnings' =
                         (IF c.loops THEN {"CSS selector loops"} ELSE {})
                           \cup StructureIssues(c)
                    /\ IF c.syntax = "compile_error"
                       THEN /\ spc' = "Raised"
                            /\ s_error' = "Generated script has syntax error"
                            /\ UNCHANGED artifact
                       ELSE /\ spc' = "Written"
                            /\ artifact' = [path |-> s_site, text |-> c]
                            /\ UNCHANGED s_error
  /\ generated_scripts' =
       IF generated_script' # NoText
       THEN [generated_scripts EXCEPT ![s_site] = generated_script']
       ELSE generated_scripts
  /\ UNCHANGED <<mode, valVars, batchVars, genVars, probeVars, expandVars,
                 discVars, regVars, tailVars, s_log, s_site, js_code_snippets,
                 generation_prompt, s_config>>

\* Lines 1520-1599: the oracle call, the script taken from its answer, the
\* syntax check and the page.evaluate( check that raise, the two checks
\* that warn, compile that raises, and the write of the artifact
SynthGenerate ==
  /\ mode = "synthesize" /\ spc = "Prompted"
  /\ s_oracle_calls' = s_oracle_calls + 1
  /\ \E answered \in BOOLEAN, c \in ScriptTexts :
       IF ~answered
       THEN /\ c = CHOOSE x \in ScriptTexts : TRUE
            /\ spc' = "Raised" /\ s_error' = "APIError"
            /\ UNCHANGED <<generated_script, s_warnings, artifact>>
       ELSE /\ generated_script' = c
            /\ IF c.syntax = "ast_error"
               THEN /\ spc' = "Raised"
                    /\ s_error' = "Generated script validation failed"
                    /\ UNCHANGED <<s_warnings, artifact>>
               ELSE IF ~c.evaluate
               THEN /\ spc' = "Raised"
                    /\ s_error' = "Generated script must use page.evaluate() pattern"
                    /\ UNCHANGED <<s_warnings, artifact>>
               ELSE /\ s_warnings' =
                         (IF c.loops THEN {"CSS selector loops"} ELSE {})
                           \cup StructureIssues(c)
                    /\ IF c.syntax = "compile_error"
                       THEN /\ spc' = "Raised"
                            /\ s_error' = "Generated script has syntax error"
                            /\ UNCHANGED artifact
                       ELSE /\ spc' = "Written"
                            /\ artifact' = [path |-> s_site, text |-> c]
                            /\ UNCHANGED s_error
  /\ generated_scripts' =
       IF spc' = "Written"
       THEN [generated_scripts EXCEPT ![s_site] = generated_script']
       ELSE generated_scripts
  /\ UNCHANGED <<mode, valVars, batchVars, genVars, probeVars, expandVars,
                 discVars, regVars, tailVars, s_log, s_site, js_code_snippets,
                 generation_prompt, s_config>>

\* The configurations run_generation_mode can be called with; main passes
\* Config.from_env(), which leaves both fields at their defaults
Configs == [enable_validation : BOOLEAN, max_validation_attempts : {1, 3}]
NoConfig == [enable_validation |-> TRUE, max_validation_attempts |-> 0]

\* Lines 1605-1636: with a url in the log validate_generated_script is
\* called with max_attempts=3 (the loop itself is the validation section
\* above); without one the validation is skipped with a warning
SynthStartValidation ==
  /\ mode = "synthesize" /\ spc = "Written"
  /\ \E cfg \in Configs : s_config' = cfg
  /\ IF s_log.url # NoUrl
     THEN spc' = "Validating" /\ pc' = "Running" /\ max_attempts' = 3
     ELSE spc' = "Returned" /\ UNCHANGED <<pc, max_attempts>>
  /\ UNCHANGED <<mode, batchVars, genVars, probeVars, expandVars, discVars,
                 regVars, tailVars, discovery_log, attempt, result, script,
                 job_descriptions, proc, content, error_message, fix_prompt,
                 log, executions, repairs, writes, exc,
                 s_log, s_site, js_code_snippets, generation_prompt,
                 s_oracle_calls, generated_script, s_warnings, artifact,
                 s_error, generated_scripts>>

\* What generated_scripts holds when the command starts: nothing, or the
\* artifacts of earlier runs
EarlierText == [syntax |-> "earlier", evaluate |-> TRUE, functions |-> TRUE,
                ai_import |-> FALSE, hardcoded |-> FALSE, loops |-> FALSE]
ScriptDirs == {[s \in JobSites |-> NoText], [s \in JobSites |-> EarlierText]}

InitSynth ==
  /\ spc = "Called" /\ s_log \in SynthLogs /\ s_site = "None"
  /\ js_code_snippets = NoSnippets /\ generation_prompt = NoGenPrompt
  /\ s_oracle_calls = 0 /\ generated_script = NoText /\ s_warnings = {}
  /\ artifact = NoArtifact /\ s_error = "none"
  /\ generated_scripts \in ScriptDirs /\ s_config = NoConfig

\* ------------------------------ save_discovery_log, load_discovery_log
\* Python values of a discovery log: str, int, float, bool, list and dict
\* (its items in insertion order), all with str keys
PyStr(x) == [t |-> "str", s |-> x, n |-> 0, b |-> FALSE, items |-> <<>>]
PyInt(x) == [t |-> "int", s |-> "", n |-> x, b |-> FALSE, items |-> <<>>]
PyFloat(x) == [t |-> "float", s |-> x, n |-> 0, b |-> FALSE, items |-> <<>>]
PyBool(x) == [t |-> "bool", s |-> "", n |-> 0, b |-> x, items |-> <<>>]
PyList(xs) == [t |-> "list", s |-> "", n |-> 0, b |-> FALSE, items |-> xs]
PyDict(kvs) == [t |-> "dict", s |-> "", n |-> 0, b |-> FALSE, items |-> kvs]
Item(key, val) == [key |-> key, val |-> val]

\* d[key] = val on a dict: an existing key keeps its place
SetItem(d, key, val) ==
  IF \E i \in 1..Len(d.items) : d.items[i].key = key
  THEN PyDict([i \in 1..Len(d.items) |->
                 IF d.items[i].key = key THEN Item(key, val) ELSE d.items[i]])
  ELSE PyDict(Append(d.items, Item(key, val)))

\* The tokens of a JSON text
Tok(kind, x, m) == [k |-> kind, s |-> x, n |-> m]
Punct(kind) == Tok(kind, "", 0)

\* json.dump(log_data, f, indent=2, ensure_ascii=False): the text written
RECURSIVE JsonDump(_), DumpList(_, _), DumpDict(_, _)
JsonDump(v) ==
  CASE v.t = "str" -> <<Tok("string", v.s, 0)>>
    [] v.t = "int" -> <<Tok("number", "", v.n)>>
    [] v.t = "float" -> <<Tok("number", v.s, 0)>>
    [] v.t = "bool" -> <<Punct(IF v.b THEN "true" ELSE "false")>>
    [] v.t = "list" -> <<Punct("[")>> \o DumpList(v.items, 1) \o <<Punct("]")>>
    [] v.t = "dict" -> <<Punct("{")>> \o DumpDict(v.items, 1) \o <<Punct("}")>>
DumpList(xs, i) ==
  IF i > Len(xs) THEN <<>>
  ELSE (IF i > 1 THEN <<Punct(",")>> ELSE <<>>)
         \o JsonDump(xs[i]) \o DumpList(xs, i + 1)
DumpDict(kvs, i) ==
  IF i > Len(kvs) THEN <<>>
  ELSE (IF i > 1 THEN <<Punct(",")>> ELSE <<>>)
         \o <<Tok("string", kvs[i].key, 0), Punct(":")>>
         \o JsonDump(kvs[i].val) \o DumpDict(kvs, i + 1)

\* json.load(f): the value that starts at token i and the index after it
RECURSIVE JsonParse(_, _), ParseList(_, _, _), ParseDict(_, _, _)
JsonParse(toks, i) ==
  LET tk == toks[i]
  IN  CASE tk.k = "string" -> [v |-> PyStr(tk.s), next |-> i + 1]
        [] tk.k = "number" ->
             [v |-> IF tk.s = "" THEN PyInt(tk.n) ELSE PyFloat(tk.s),
              next |-> i + 1]
        [] tk.k = "true" -> [v |-> PyBool(TRUE), next |-> i + 1]
        [] tk.k = "false" -> [v |-> PyBool(FALSE), next |-> i + 1]
        [] tk.k = "[" ->
             IF toks[i + 1].k = "]" THEN [v |-> PyList(<<>>), next |-> i + 2]
             ELSE ParseList(toks, i + 1, <<>>)
        [] tk.k = "{" ->
             IF toks[i + 1].k = "}" THEN [v |-> PyDict(<<>>), next |-> i + 2]
             ELSE ParseDict(toks, i + 1, PyDict(<<>>))
ParseList(toks, i, acc) ==
  LET r == JsonParse(toks, i)
  IN  IF toks[r.next].k = ","
      THEN ParseList(toks, r.next + 1, Append(acc, r.v))
      ELSE [v |-> PyList(Append(acc, r.v)), next |-> r.next + 1]
ParseDict(toks, i, acc) ==
  LET r == JsonParse(toks, i + 2)
      d == SetItem(acc, toks[i].s, r.v)
  IN  IF toks[r.next].k = ","
      THEN ParseDict(toks, r.next + 1, d)
      ELSE [v |-> d, next |-> r.next + 1]

JsonLoad(toks) == JsonParse(toks, 1).v

\* The dict run_discovery_mode returns, before its five entries are set:
\* the oracle's object, with or without entries under the keys of
\* save_discovery_log, or the structured fallback
LogBases ==
  { PyDict(<<Item("observations", PyList(<<PyStr("observed")>>)),
             Item("edge_cases", PyList(<<>>))>>),
    PyDict(<<Item("site", PyStr("oracle-site")),
             Item("observations", PyList(<<PyStr("observed")>>)),
             Item("confidence", PyFloat("0.95")),
             Item("timestamp", PyStr("oracle-time")),
             Item("script_version", PyInt(9))>>),
    PyDict(<<Item("job_id", PyStr("4305267405")),
             Item("url", PyStr("https://www.linkedin.com/jobs/view/4305267405")),
             Item("observations", PyList(<<PyStr("response_text")>>)),
             Item("data_extraction", PyDict(<<>>)),
             Item("edge_cases", PyList(<<>>)),
             Item("raw_response", PyStr("response_text"))>>) }

\* A result dict of test_extraction_strategies
PyStrategy(kind, length, conf) ==
  PyDict(<<Item("strategy", PyStr(kind)),
           Item(IF kind = "javascript_evaluation" THEN "code" ELSE "selector",
                PyStr("h1")),
           Item("success", PyBool(TRUE)),
           Item("sample", PyStr("Engineering Manager")),
           Item("length", PyInt(length)),
           Item("confidence", PyStr(conf))>>)

\* tested_strategies: no field worked, or title with one or two results
PyTested ==
  { PyDict([i \in 1..Len(FieldOrder) |->
              Item(FieldOrder[i],
                   PyList(IF FieldOrder[i] = "title" THEN l ELSE <<>>))]) :
      l \in {<<>>,
             <<PyStrategy("javascript_evaluation", 157, "high")>>,
             <<PyStrategy("javascript_evaluation", 57, "medium"),
               PyStrategy("css_selector", 19, "low")>>} }

\* show_more_strategy as test_show_more_button returns it
PyShowMore ==
  { PyDict(<<Item("needed", PyBool(FALSE))>>),
    PyDict(<<Item("needed", PyBool(TRUE)),
             Item("selector", PyStr("button[aria-expanded='false']")),
             Item("before_length", PyInt(200)),
             Item("after_length", PyInt(900))>>) }

\* html_samples
PySamples ==
  { PyDict(<<>>), PyDict(<<Item("title", PyStr("<h1>Engineering Manager</h1>"))>>) }

\* run_discovery_mode, lines 901-908, on a base
PyRunEntries(base, t, sm, hs) ==
  SetItem(SetItem(SetItem(SetItem(SetItem(base,
    "job_id", PyStr("4305267405")),
    "url", PyStr("https://www.linkedin.com/jobs/view/4305267405")),
    "tested_strategies", t),
    "show_more_strategy", sm),
    "html_samples", hs)

\* The logs main hands to save_discovery_log
PyLogs ==
  { PyRunEntries(base, t, sm, hs) :
      base \in LogBases, t \in PyTested, sm \in PyShowMore, hs \in PySamples }

\* datetime.now() at the time of the save
SaveTimes == {"2025-09-29T12:00:00", "2025-09-29T12:00:07"}

NoData == PyDict(<<>>)

\* SaveDiscoveryLog writing the file before it adds site, timestamp and
\* script_version
SaveDiscoveryLog_DumpFirst ==
  /\ mode = "persist" /\ fpc = "Called"
  /\ \E now \in SaveTimes :
       /\ log_data' = SetItem(SetItem(SetItem(log_data,
                        "site", PyStr(p_site)),
                        "timestamp", PyStr(now)),
                        "script_version", PyStr("1.1"))
       /\ filepath' = [site |-> p_site, stamp |-> now]
       /\ log_file' = JsonDump(log_data)
  /\ fpc' = "Saved"
  /\ UNCHANGED <<mode, valVars, batchVars, genVars, probeVars, expandVars,
                 discVars, regVars, synthVars, judgeVars, canonVars, p_site,
                 loaded_log>>

\* save_discovery_log: the three entries are set on log_data itself, then
\* the file {site}_discovery_{timestamp}.json is written
SaveDiscoveryLog ==
  /\ mode = "persist" /\ fpc = "Called"
  /\ \E now \in SaveTimes :
       LET stamped == SetItem(SetItem(SetItem(log_data,
                        "site", PyStr(p_site)),
                        "timestamp", PyStr(now)),
                        "script_version", PyStr("1.1"))
       IN  /\ log_data' = stamped
           /\ filepath' = [site |-> p_site, stamp |-> now]
           /\ log_file' = JsonDump(stamped)
  /\ fpc' = "Saved"
  /\ UNCHANGED <<mode, valVars, batchVars, genVars, probeVars, expandVars,
                 discVars, regVars, synthVars, judgeVars, canonVars, p_site,
                 loaded_log>>

\* load_discovery_log on the file just written
LoadDiscoveryLog ==
  /\ mode = "persist" /\ fpc = "Saved"
  /\ loaded_log' = JsonLoad(log_file)
  /\ fpc' = "Loaded"
  /\ UNCHANGED <<mode, valVars, batchVars, genVars, probeVars, expandVars,
                 discVars, regVars, synthVars, judgeVars, canonVars, p_site,
                 log_data, filepath,
                 log_file>>

InitPersist ==
  /\ fpc = "Called" /\ p_site \in JobSites /\ log_data \in PyLogs
  /\ filepath = [site |-> "None", stamp |-> "None"]
  /\ log_file = <<>> /\ loaded_log = NoData

\* ------------------- one execution result, judged by harness and by loop
\* Output texts by length and by the word that may be a marker
JudgeContents ==
  [len : {0, 200, 500, 501, 2000},
   word : {"About", "about", "RESPONSIBILITIES", "Description", "Apply"}]

\* What subprocess.run and the glob can give both callers
JudgeRuns ==
  { [kind |-> "timeout", returncode |-> -1, found |-> NoFile],
    [kind |-> "exit", returncode |-> 1, found |-> NoFile],
    [kind |-> "exit", returncode |-> 1, found |-> [len |-> 2000, word |-> "About"]],
    [kind |-> "exit", returncode |-> 0, found |-> NoFile] } \cup
  [kind : {"exit"}, returncode : {0}, found : JudgeContents]

NoRun == [kind |-> "None", returncode |-> -1, found |-> NoFile]

\* validate_scraper_multi_job, lines 1173-1214, on the run
HarnessJudges ==
  /\ mode = "judge" /\ harness_verdict = "unjudged"
  /\ harness_verdict' =
       IF TestResult(LinkedInUrl, "linkedin", exec_run).success
       THEN "success" ELSE "failure"
  /\ UNCHANGED <<mode, valVars, batchVars, genVars, probeVars, expandVars,
                 discVars, regVars, synthVars, persistVars, canonVars, exec_run,
                 loop_verdict>>

\* validate_generated_script, lines 950-1022, on the run
LoopJudges ==
  /\ mode = "judge" /\ loop_verdict = "unjudged"
  /\ loop_verdict' =
       Classify([timedOut |-> exec_run.kind = "timeout",
                 returncode |-> exec_run.returncode, stderr |-> 0,
                 wrote |-> 0],
                IF exec_run.found = NoFile THEN {} ELSE {1},
                IF exec_run.kind = "exit" /\ exec_run.returncode = 0
                   /\ exec_run.found # NoFile
                THEN exec_run.found ELSE NoContent)
  /\ UNCHANGED <<mode, valVars, batchVars, genVars, probeVars, expandVars,
                 discVars, regVars, synthVars, persistVars, canonVars, exec_run,
                 harness_verdict>>

InitJudge ==
  /\ exec_run \in JudgeRuns
  /\ harness_verdict = "unjudged" /\ loop_verdict = "unjudged"

\* ------------------------------------------- url_utils.normalize_job_url
\* SITE_PATTERNS of url_utils in the order of the dict
UtilsSiteOrder == <<"linkedin", "indeed", "glassdoor">>

\* domain_pattern of each SitePattern
domain_pattern(s) ==
  CASE s = "linkedin" -> <<"linkedin.com">>
    [] s = "indeed" -> <<"indeed.com">>
    [] s = "glassdoor" -> <<"glassdoor.com">>

\* Pieces "/" followed by [^/]+ : a slash and a slug that is not empty
SlugTokens == {"/engineer"}

\* job_id_pattern of each SitePattern, piece by piece: the texts each
\* piece may be, the last one being the group
utils_job_id_pattern(s) ==
  CASE s = "linkedin" -> <<{"/jobs"}, {"/view/"}, DigitTokens>>
    [] s = "indeed" -> <<{"?jk=", "&jk="}, HexTokens>>
    [] s = "glassdoor" -> <<{"/job-listing"}, SlugTokens, {"-JV_IC"}, DigitTokens>>

\* canonical_template.format(job_id=job_id)
canonical_template(s, id) ==
  CASE s = "linkedin" -> <<"https://www.", "linkedin.com", "/jobs", "/view/", id>>
    [] s = "indeed" -> <<"https://www.", "indeed.com", "/viewjob", "?jk=", id>>
    [] s = "glassdoor" ->
         <<"https://www.", "glassdoor.com", "/job-listing", "/", "-JV_IC", id>>

\* url.strip()
RECURSIVE Strip(_)
Strip(url) ==
  IF url = <<>> THEN url
  ELSE IF url[1] = " " THEN Strip(Tail(url))
  ELSE IF url[Len(url)] = " " THEN Strip(SubSeq(url, 1, Len(url) - 1))
  ELSE url

\* url_utils.detect_job_site: the first SitePattern whose domain_pattern
\* is found in url.lower(); "None" for None
UtilsDetectJobSite(url) ==
  LET folded == [i \in 1..Len(url) |-> Lower(url[i])]
      hits == {k \in 1..Len(UtilsSiteOrder) :
                 \E i \in 1..Len(url) :
                   OccursAt(domain_pattern(UtilsSiteOrder[k]), folded, i)}
  IN  IF hits = {} THEN "None" ELSE UtilsSiteOrder[SetMin(hits)]

\* positions where re.search(job_id_pattern, url, re.IGNORECASE) can match
UtilsIdMatches(s, url) ==
  LET pat == utils_job_id_pattern(s)
  IN  {i \in 1..Len(url) :
         /\ i + Len(pat) - 1 <= Len(url)
         /\ \A k \in 1..Len(pat) :
              Lower(url[i + k - 1]) \in {Lower(x) : x \in pat[k]}}

\* url_utils.extract_job_id: group 1 of the leftmost match; "None" for None
UtilsExtractJobId(url, s) ==
  IF UtilsIdMatches(s, url) = {} THEN "None"
  ELSE url[SetMin(UtilsIdMatches(s, url)) + Len(utils_job_id_pattern(s)) - 1]

NoJobURL == [ok |-> FALSE, site |-> "None", job_id |-> "None",
             canonical_url |-> NoUrl]
NotCalled == [ok |-> FALSE, site |-> "not called", job_id |-> "None",
              canonical_url |-> NoUrl]

\* normalize_job_url: the JobURL, or NoJobURL for the ValueError
NormalizeJobUrl(url) ==
  LET stripped == Strip(url)
      s == UtilsDetectJobSite(stripped)
      id == IF s = "None" THEN "None" ELSE UtilsExtractJobId(stripped, s)
  IN  IF url = <<>> \/ s = "None" \/ id = "None" THEN NoJobURL
      ELSE [ok |-> TRUE, site |-> s, job_id |-> id,
            canonical_url |-> canonical_template(s, id)]

\* The urls given to normalize_job_url
CanonUrls ==
  { <<pre, host, "/jobs", "/view/", id>> \o tail :
      pre \in {"https://www.", "https://"},
      host \in {"linkedin.com", "LINKEDIN.COM"},
      id \in {"4305267405", "4300362234"},
      tail \in {<<>>, <<"?trk=public_jobs">>, <<" ">>} }
  \cup
  { <<"https://www.", "indeed.com", "/viewjob", "?jk=", id>> \o tail :
      id \in {"ee188e8f304a1b67", "ABC123", "1234"},
      tail \in {<<>>, <<"&from=shareddesktop_copy">>} }
  \cup
  { <<"https://www.", "glassdoor.com", "/job-listing", slug, "-JV_IC", id>> :
      slug \in {"/engineer", "/"}, id \in {"1234"} }
  \cup {LinkedInSearchUrl, LinkedInSearchJkUrl, OtherUrl, TwoProfilesUrl, <<>>}

\* normalize_job_url(c_url)
CallNormalize ==
  /\ mode = "canon" /\ normalized = NotCalled
  /\ normalized' = NormalizeJobUrl(c_url)
  /\ UNCHANGED <<mode, valVars, batchVars, genVars, probeVars, expandVars,
                 discVars, regVars, synthVars, persistVars, judgeVars,
                 c_url, renormalized, c_detected, c_extracted>>

\* normalize_job_url on the canonical_url of the first result
CallNormalizeAgain ==
  /\ mode = "canon" /\ normalized.ok /\ renormalized = NotCalled
  /\ renormalized' = NormalizeJobUrl(normalized.canonical_url)
  /\ UNCHANGED <<mode, valVars, batchVars, genVars, probeVars, expandVars,
                 discVars, regVars, synthVars, persistVars, judgeVars,
                 c_url, normalized, c_detected, c_extracted>>

\* main 1724-1730 without --site: ai_parser.detect_job_site(args.url) on the
\* canonical url
CanonDetect ==
  /\ mode = "canon" /\ normalized.ok /\ c_detected = "not called"
  /\ c_detected' = DetectJobSite(normalized.canonical_url)
  /\ UNCHANGED <<mode, valVars, batchVars, genVars, probeVars, expandVars,
                 discVars, regVars, synthVars, persistVars, judgeVars,
                 c_url, normalized, renormalized, c_extracted>>

\* run_discovery_mode 756: ai_parser.extract_job_id(job_url, site) on the
\* canonical url with the site detected for it
CanonExtract ==
  /\ mode = "canon" /\ normalized.ok /\ c_extracted = "not called"
  /\ c_extracted' = ExtractJobId(normalized.canonical_url, "None")
  /\ UNCHANGED <<mode, valVars, batchVars, genVars, probeVars, expandVars,
                 discVars, regVars, synthVars, persistVars, judgeVars,
                 c_url, normalized, renormalized, c_detected>>

InitCanon ==
  /\ c_url \in CanonUrls /\ normalized = NotCalled /\ renormalized = NotCalled
  /\ c_detected = "not called" /\ c_extracted = "not called"

IdleValidate ==
  /\ max_attempts = 0 /\ discovery_log = CHOOSE d \in DiscoveryLogs : TRUE
  /\ attempt = 1 /\ pc = "Idle" /\ result = NoResult
  /\ script = <<Shebang, "generated">>
  /\ job_descriptions = [f \in 1..MaxFiles |-> NoFile]
  /\ proc = NoProc /\ content = NoContent /\ error_message = <<"<none>">>
  /\ fix_prompt = NoPrompt /\ log = <<>>
  /\ executions = 0 /\ repairs = 0 /\ writes = 0 /\ exc = "none"

IdleBatch ==
  /\ site = "linkedin" /\ arg_urls = NoneUrls /\ test_urls = <<>>
  /\ results = <<>> /\ bpc = "Idle" /\ success_rate = Frac(0, 1)

IdleGen ==
  /\ gpc = "Idle" /\ multi_job_test = FALSE /\ log_site = "None"
  /\ log_url = NoUrl /\ report = NoReport /\ warned = FALSE /\ exit_status = -1

IdleProbe ==
  /\ field_name = "title" /\ ppc = "Idle" /\ selector_i = 1
  /\ probe_results = <<>> /\ attempts = <<>>

IdleExpand ==
  /\ xpc = "Idle" /\ page_desc = -1 /\ desc_before = 0 /\ button_i = 1
  /\ clicked = FALSE /\ clicked_selector = 0 /\ trigger_log = <<>>
  /\ show_more_strategy = NoStrategy

IdleDiscover ==
  /\ dpc = "Idle" /\ job_url = NoUrl /\ site_arg = "None" /\ job_id = "None"
  /\ browser = "none" /\ navigations = 0 /\ page_ops = 0 /\ oracle_calls = 0
  /\ d_error = "none" /\ field_i = 1 /\ active = {} /\ events = <<>>
  /\ tested = [f \in ProbeFields |-> FALSE]
  /\ show_more = [needed |-> FALSE] /\ html_samples = NoSamples
  /\ response = NoResponse /\ d_log = NoLog /\ persisted = NoLog

IdleRegistry == reg_url = NoUrl /\ detected = <<>> /\ extracted = <<>>

IdleSynth ==
  /\ spc = "Idle" /\ s_log = NoSynthLog /\ s_site = "None"
  /\ js_code_snippets = NoSnippets /\ generation_prompt = NoGenPrompt
  /\ s_oracle_calls = 0 /\ generated_script = NoText /\ s_warnings = {}
  /\ artifact = NoArtifact /\ s_error = "none"
  /\ generated_scripts = [s \in JobSites |-> NoText] /\ s_config = NoConfig

IdlePersist ==
  /\ fpc = "Idle" /\ p_site = "None" /\ log_data = NoData
  /\ filepath = [site |-> "None", stamp |-> "None"]
  /\ log_file = <<>> /\ loaded_log = NoData

IdleJudge ==
  exec_run = NoRun /\ harness_verdict = "unjudged" /\ loop_verdict = "unjudged"

IdleCanon ==
  /\ c_url = NoUrl /\ normalized = NotCalled /\ renormalized = NotCalled
  /\ c_detected = "not called" /\ c_extracted = "not called"

IdleTail == IdlePersist /\ IdleJudge /\ IdleCanon

IdleMore == IdleRegistry /\ IdleSynth /\ IdleTail

IdleRest == IdleGen /\ IdleProbe /\ IdleExpand /\ IdleDiscover /\ IdleMore

vars == <<mode, valVars, batchVars, restVars>>

Init ==
  \/ mode = "validate" /\ InitValidate /\ IdleBatch /\ IdleRest
  \/ mode = "batch" /\ InitBatch /\ IdleValidate /\ IdleRest

Next == LoopExit \/ Execute \/ RequestFix \/ RequestFixRaises
          \/ BatchStart \/ BatchTest

Spec == Init /\ [][Next]_vars

\* The validation loop on its own. Every subprocess.run returns or times
\* out and every oracle call returns or raises: an enabled step of the loop
\* is eventually taken.
ValidateInit == mode = "validate" /\ InitValidate /\ IdleBatch /\ IdleRest
ValidateNext == LoopExit \/ Execute \/ RequestFix \/ RequestFixRaises
LiveSpec == ValidateInit /\ [][ValidateNext]_vars /\ WF_vars(ValidateNext)

\* The generate command of main: generation, the validation loop with three
\* attempts, then the harness when --multi-job-test is given
GenInit ==
  /\ mode = "generate" /\ InitGenerate
  /\ IdleBatch /\ IdleProbe /\ IdleExpand /\ IdleDiscover /\ IdleMore
GenNext == Generate \/ Execute \/ RequestFix \/ RequestFixRaises
             \/ ValidationReturns \/ MainTest \/ BatchStart \/ BatchTest
             \/ MainReport
GenSpec == GenInit /\ [][GenNext]_vars

\* One call of test_extraction_strategies on a page
ProbeInit ==
  /\ mode = "probe" /\ InitProbe
  /\ IdleValidate /\ IdleBatch /\ IdleGen /\ IdleExpand /\ IdleDiscover
  /\ IdleMore
ProbeNext == ProbeJs \/ ProbeCss
ProbeSpec == ProbeInit /\ [][ProbeNext]_vars

\* One call of test_show_more_button on a page
ExpandInit ==
  /\ mode = "expand" /\ InitExpand
  /\ IdleValidate /\ IdleBatch /\ IdleGen /\ IdleProbe /\ IdleDiscover
  /\ IdleMore
ExpandNext == MeasureBefore \/ TryTrigger \/ MeasureAfter
ExpandSpec == ExpandInit /\ [][ExpandNext]_vars

\* One call of run_discovery_mode
DiscoverInit ==
  /\ mode = "discover" /\ InitDiscover
  /\ IdleValidate /\ IdleBatch /\ IdleGen /\ IdleProbe /\ IdleExpand
  /\ IdleMore
DiscoverNext == DiscoverCall \/ DiscoverLoad \/ DiscoverProbeBegin
                  \/ DiscoverProbeEnd \/ DiscoverExpand \/ DiscoverSamples
                  \/ DiscoverAnalyze
DiscoverSpec == DiscoverInit /\ [][DiscoverNext]_vars

\* Calls of the registry functions on one url
RegistryInit ==
  /\ mode = "registry" /\ InitRegistry
  /\ IdleValidate /\ IdleBatch /\ IdleGen /\ IdleProbe /\ IdleExpand
  /\ IdleDiscover /\ IdleSynth /\ IdleTail
RegistryNext == CallDetect \/ CallExtract
RegistrySpec == RegistryInit /\ [][RegistryNext]_vars

SynthInit ==
  /\ mode = "synthesize" /\ InitSynth
  /\ IdleValidate /\ IdleBatch /\ IdleGen /\ IdleProbe /\ IdleExpand
  /\ IdleDiscover /\ IdleRegistry /\ IdleTail
SynthNext == SynthPrepare \/ SynthGenerate \/ SynthStartValidation
SynthSpec == SynthInit /\ [][SynthNext]_vars

PersistInit ==
  /\ mode = "persist" /\ InitPersist
  /\ IdleValidate /\ IdleBatch /\ IdleGen /\ IdleProbe /\ IdleExpand
  /\ IdleDiscover /\ IdleRegistry /\ IdleSynth /\ IdleJudge /\ IdleCanon
PersistNext == SaveDiscoveryLog \/ LoadDiscoveryLog
PersistSpec == PersistInit /\ [][PersistNext]_vars

JudgeInit ==
  /\ mode = "judge" /\ InitJudge
  /\ IdleValidate /\ IdleBatch /\ IdleGen /\ IdleProbe /\ IdleExpand
  /\ IdleDiscover /\ IdleRegistry /\ IdleSynth /\ IdlePersist /\ IdleCanon
JudgeNext == HarnessJudges \/ LoopJudges
JudgeSpec == JudgeInit /\ [][JudgeNext]_vars

CanonInit ==
  /\ mode = "canon" /\ InitCanon
  /\ IdleValidate /\ IdleBatch /\ IdleGen /\ IdleProbe /\ IdleExpand
  /\ IdleDiscover /\ IdleRegistry /\ IdleSynth /\ IdlePersist /\ IdleJudge
CanonNext == CallNormalize \/ CallNormalizeAgain \/ CanonDetect \/ CanonExtract
CanonSpec == CanonInit /\ [][CanonNext]_vars

\* ================================================================ properties
Last(q) == q[Len(q)]
Validating == mode = "validate"
SomeSufficient == \E i \in 1..Len(log) : log[i].outcome = "Sufficient"
NoneSufficient == \A i \in 1..Len(log) : log[i].outcome # "Sufficient"

\* C1: for max_attempts >= 1 and every sequence of execution results and
\* oracle responses, failing calls included, the artifact is executed at most
\* max_attempts times and the run ends only as Passed (True, []) or as
\* Failed (False, reasons).
C1_EndsPassedOrFailed ==
  (Validating /\ max_attempts >= 1) =>
    /\ executions <= max_attempts
    /\ pc \in {"Running", "Repairing", "Passed", "Failed"}
    /\ (pc = "Passed" => result = [success |-> TRUE, issues |-> <<>>])
    /\ (pc = "Failed" => ~result.success)

Budget == 2 * (max_attempts - attempt) + (IF pc = "Running" THEN 1 ELSE 0)
InLoop == pc \in {"Running", "Repairing"}
C2_StepUsesBudget ==
  (Validating /\ InLoop) =>
     /\ Budget >= -1
     /\ (InLoop' => Budget' < Budget)

\* C2: when every execution returns or times out and every repair request
\* returns (no call raises), the loop eventually ends in Passed or Failed;
\* every step of a run that is not over uses up part of the finite budget
\* 2 * (max_attempts - attempt) + [pc = "Running"], so it cannot retry forever.
C2_Terminates ==
  /\ ([](pc # "Raised") => <>(~Validating \/ pc \in {"Passed", "Failed"}))
  /\ [][C2_StepUsesBudget]_vars
C2_Witness ==
  Validating /\ pc = "Failed" /\ max_attempts >= 2 /\ repairs = max_attempts - 1

C3_Inv ==
  Validating =>
    /\ (pc = "Passed") <=> SomeSufficient
    /\ \A i \in 1..Len(log) :
         log[i].outcome = "Sufficient" =>
           i = Len(log) /\ log[i].attempt = i /\ i <= max_attempts
    /\ (pc = "Passed" => /\ result = [success |-> TRUE, issues |-> <<>>]
                         /\ executions = Len(log))
C3_Frozen ==
  SomeSufficient => UNCHANGED <<executions, repairs, writes, script, log, pc>>

\* C3: the loop is in Passed exactly when some attempt was classified
\* Sufficient; that attempt is the last one made and has index <= max_attempts,
\* and once it is classified nothing is executed, repaired or rewritten.
C3_PassedAtFirstSufficient == []C3_Inv /\ [][C3_Frozen]_vars
C3_Witness ==
  Validating /\ pc = "Passed" /\ Len(log) >= 2 /\ repairs = Len(log) - 1

\* C4: Failed is returned after exactly max_attempts executions, all of them
\* non-Sufficient: not while fewer attempts have been made, and as soon as
\* max_attempts non-Sufficient attempts have been made (max_attempts = 3 and
\* three outputs of length 200: Failed with 3 executions).
C4_FailedAfterExactlyMax ==
  Validating =>
    /\ executions <= (IF max_attempts >= 0 THEN max_attempts ELSE 0)
    /\ (pc = "Failed" =>
          /\ executions = max_attempts /\ Len(log) = max_attempts
          /\ NoneSufficient /\ ~result.success)
    /\ ((max_attempts >= 1 /\ Len(log) = max_attempts /\ NoneSufficient)
          => pc = "Failed")
C4_ScenarioD ==
  /\ Validating /\ pc = "Failed" /\ max_attempts = 3 /\ executions = 3
  /\ \A i \in 1..3 :
       log[i].error_msg = <<"Output too short or missing key content", 200>>

C5_Inv ==
  Validating =>
    /\ (pc = "Repairing" =>
          /\ Len(log) = attempt /\ Last(log).outcome # "Sufficient"
          /\ attempt < max_attempts
          /\ repairs = attempt - 1 /\ writes = attempt - 1)
    /\ (pc = "Running" =>
          /\ Len(log) = attempt - 1
          /\ repairs = attempt - 1 /\ writes = attempt - 1)
    /\ ((pc = "Failed" /\ max_attempts >= 1) =>
          repairs = max_attempts - 1 /\ writes = repairs)
    /\ repairs <= (IF max_attempts >= 1 THEN max_attempts - 1 ELSE 0)
C5_Step ==
  Validating =>
    /\ ((pc = "Running" /\ Len(log') > Len(log)) =>
          /\ UNCHANGED <<repairs, writes, script, attempt>>
          /\ (Last(log').outcome # "Sufficient" =>
                pc' = (IF attempt < max_attempts THEN "Repairing" ELSE "Failed")))
    /\ (pc = "Repairing" =>
          /\ repairs' = repairs + 1
          /\ pc' \in {"Running", "Raised"}
          /\ (pc' = "Running" =>
                /\ attempt' = attempt + 1 /\ writes' = writes + 1
                /\ \E r \in OracleResponses :
                     script' = <<Shebang>> \o ExtractCode(r))
          /\ (pc' = "Raised" => UNCHANGED <<script, writes, attempt>>))
    /\ (pc = "Failed" => UNCHANGED <<repairs, writes, script>>)

\* C5: a non-Sufficient attempt n < max_attempts leads to exactly one repair
\* request; when the oracle answers, the artifact becomes the shebang line
\* followed by the code taken from the answer and attempt n+1 starts. A
\* non-Sufficient attempt n = max_attempts requests nothing and rewrites
\* nothing. At most max_attempts - 1 repairs are requested in a run.
C5_OneRepairPerFailedAttempt == []C5_Inv /\ [][C5_Step]_vars
C5_Witness ==
  /\ Validating /\ pc = "Running" /\ attempt = 2 /\ repairs = 1
  /\ script = <<Shebang, "fixed">>

\* C6: the reasons returned with Failed contain the failure reason of every
\* attempt 1..max_attempts.
C6_FailedCarriesAllReasons ==
  (Validating /\ pc = "Failed" /\ max_attempts >= 1) =>
    \A i \in 1..Len(log) :
      \E j \in 1..Len(result.issues) : result.issues[j] = log[i].error_msg

Outcomes ==
  {"Timeout", "NonZeroExit", "NoOutputProduced", "InsufficientContent", "Sufficient"}
MarkerWords ==
  {"About", "responsibilities", "Responsibilities", "RESPONSIBILITIES",
   "description", "Description", "DESCRIPTION"}

\* C7: an attempt gets exactly one of the five outcomes, decided in the
\* order timeout, non-zero exit code, no output file for the job id, then
\* Sufficient when the output has more than 500 characters and one of the
\* markers About, responsibilities, description (the last two in any case),
\* else InsufficientContent.
C7_ClassifiedInOrder ==
  (Validating /\ log # <<>>) =>
    LET o == Last(log).outcome
        ran == ~proc.timedOut
        ok == ran /\ proc.returncode = 0
        hasFile == \E f \in 1..MaxFiles : job_descriptions[f] # NoFile
        good == content.len > 500 /\ content.word \in MarkerWords
    IN  /\ o \in Outcomes
        /\ (o = "Timeout" <=> proc.timedOut)
        /\ (o = "NonZeroExit" <=> ran /\ proc.returncode # 0)
        /\ (o = "NoOutputProduced" <=> ok /\ ~hasFile)
        /\ (o = "Sufficient" <=> ok /\ hasFile /\ good)
        /\ (o = "InsufficientContent" <=> ok /\ hasFile /\ ~good)
        /\ ((ok /\ hasFile) =>
              \E f \in 1..MaxFiles : job_descriptions[f] = content)
C7_Witness ==
  /\ Validating /\ log # <<>> /\ Last(log).outcome = "InsufficientContent"
  /\ content = [len |-> 500, word |-> "RESPONSIBILITIES"]

\* C8: the outcome of an attempt depends only on what that attempt's
\* execution produced: a Sufficient attempt wrote the output it was judged
\* on, and an attempt that exits 0 without writing output is NoOutputProduced.
C8_OnlyOwnOutput ==
  (Validating /\ log # <<>>) =>
    /\ (Last(log).outcome = "Sufficient" =>
          proc.wrote # 0 /\ content = job_descriptions[proc.wrote])
    /\ ((~proc.timedOut /\ proc.returncode = 0 /\ proc.wrote = 0) =>
          Last(log).outcome = "NoOutputProduced")

Range(q) == {q[i] : i \in 1..Len(q)}
NarrativeValues(d) ==
  Range(d.observations) \cup Range(d.edge_cases)
    \cup {d.data_extraction[f] : f \in DOMAIN d.data_extraction}
C9_Request ==
  (Validating /\ repairs' = repairs + 1) =>
    LET js == fix_prompt'.working_js
        ts == discovery_log.tested_strategies
    IN  /\ fix_prompt'.broken_script = script
        /\ Last(log).attempt = attempt
        /\ fix_prompt'.error_message =
             (IF Last(log).outcome = "NonZeroExit"
              THEN <<"stderr", proc.stderr>> ELSE Last(log).error_msg)
        /\ \A f \in DOMAIN js :
             /\ f \in DOMAIN ts
             /\ \E i \in 1..Len(ts[f]) :
                  /\ ts[f][i].strategy = "javascript_evaluation"
                  /\ ts[f][i].success
                  /\ ts[f][i].code = js[f]
             /\ js[f] \notin NarrativeValues(discovery_log)
        /\ (fix_prompt # NoPrompt => js = fix_prompt.working_js)

\* C9: every repair request carries the artifact text on disk at that
\* moment, the failure signal of the attempt that just failed, and working_js
\* entries that are codes of successful javascript_evaluation entries of
\* tested_strategies and never values of observations, data_extraction or
\* edge_cases; the discovery record never changes, so every request of a run
\* carries the same strategies.
C9_RepairRequestContents ==
  [][C9_Request /\ discovery_log' = discovery_log]_vars
C9_Witness ==
  /\ Validating /\ repairs = 2
  /\ fix_prompt.broken_script = <<Shebang, "fixed">>
  /\ fix_prompt.error_message = <<"stderr", 600>>
  /\ DOMAIN fix_prompt.working_js = {"title", "description"}

Passed == Cardinality({i \in 1..Len(results) : results[i].success})

\* C10: the harness returns 100 * passed / total for a non-empty url list
\* and 0.0 for an empty one, without dividing by zero; 3 passes out of 4 urls
\* give 75.0.
C10_Percentage ==
  (mode = "batch" /\ bpc = "Done") =>
    LET total == Len(test_urls)
    IN  /\ (total = 0 => success_rate = [num |-> 0, den |-> 1] /\ results = <<>>)
        /\ (total > 0 =>
              /\ Len(results) = total
              /\ success_rate.den > 0
              /\ success_rate.num * total = 100 * Passed * success_rate.den)
        /\ ((total = 4 /\ Passed = 3) => success_rate = [num |-> 75, den |-> 1])
C10_Witness ==
  /\ mode = "batch" /\ bpc = "Done" /\ Len(test_urls) = 4 /\ Passed = 3
  /\ success_rate = [num |-> 75, den |-> 1]

\* C11: the harness ends with one result per input url, result i being the
\* result of url i in input order; a run that times out, exits non-zero,
\* leaves no output, leaves a short output or raises is recorded as a failed
\* result, never ends the batch early and never changes a result already
\* recorded.
C11_Inv ==
  mode = "batch" =>
    /\ Len(results) <= Len(test_urls)
    /\ \A i \in 1..Len(results) :
         /\ results[i].url = test_urls[i]
         /\ results[i].job_id = JobIdOf(test_urls[i], site)
    /\ (bpc = "Done" => Len(results) = Len(test_urls))
    /\ (bpc = "Testing" => Len(results) < Len(test_urls))
C11_Step ==
  /\ Len(results') >= Len(results)
  /\ \A i \in 1..Len(results) : results'[i] = results[i]
  /\ (bpc = "Testing" => Len(results') = Len(results) + 1 /\ test_urls' = test_urls)
C11_OneResultPerUrl == []C11_Inv /\ [][C11_Step]_vars
C11_Witness ==
  /\ mode = "batch" /\ bpc = "Done" /\ Len(results) = 4
  /\ test_urls[1] # test_urls[2]
  /\ results[1].error = <<"Timeout (90s)">>
  /\ results[2].error = <<"exception">>
  /\ results[3].error = <<"Exit code", 1>>
  /\ results[4].success

\* C12: once the harness has run, a rate below 85 only sets the warning: the
\* exit status is 0 whenever the report was saved, the report holds the
\* rate and the results as returned, and the artifact is the one validation
\* left, whether the rate is below or at least 85.
C12_Inv ==
  (mode = "generate" /\ gpc = "Exited" /\ bpc = "Done") =>
    /\ exit_status = (IF report.written THEN 0 ELSE 1)
    /\ (report.written =>
          /\ report = TestReport(site, success_rate, results)
          /\ (warned <=> BelowTarget(success_rate)))
    /\ (~report.written => ~warned)
C12_Step ==
  (mode = "generate" /\ gpc = "Testing") =>
    /\ script' = script
    /\ (gpc' = "Exited" => results' = results /\ success_rate' = success_rate)
C12_WarningOnly == []C12_Inv /\ [][C12_Step]_vars
C12_Witness ==
  /\ mode = "generate" /\ gpc = "Exited" /\ bpc = "Done" /\ pc = "Passed"
  /\ results # <<>> /\ BelowTarget(success_rate)
  /\ warned /\ report.written /\ exit_status = 0

\* C13: in the generate command the harness is entered only after the
\* validation loop has ended in Passed, never after Failed and never when
\* the loop has not run.
C13_BatchOnlyAfterPassed ==
  (mode = "generate" /\ bpc # "Idle") => pc = "Passed"

\* C14: the list test_extraction_strategies returns never goes up in
\* confidence tier from one entry to the next, and entries of equal tier are
\* in discovery order: the js strategy before the selectors, the selectors
\* in the order of css_selectors.
Probing == mode = "probe"
TierOf(r) == confidence_order(r.confidence)
C14_SortedStable ==
  (Probing /\ ppc = "Done") =>
    \A i, j \in 1..Len(probe_results) :
      i < j =>
        /\ TierOf(probe_results[i]) >= TierOf(probe_results[j])
        /\ (TierOf(probe_results[i]) = TierOf(probe_results[j]) =>
              probe_results[i].selector < probe_results[j].selector)
C14_Witness ==
  /\ Probing /\ ppc = "Done" /\ Len(probe_results) = 4
  /\ probe_results[1].strategy = "javascript_evaluation"
  /\ probe_results[1].confidence = "medium"
  /\ probe_results[2].confidence = "medium"
  /\ probe_results[2].selector = 2
  /\ probe_results[3].selector = 1
  /\ probe_results[4].selector = 3

\* C15: the tier of a result depends only on its strategy and its length:
\* js is high above 100 characters and medium otherwise, a selector is
\* medium above 50 and low otherwise; at the same length js is never the
\* lower one, and at 150 characters js is high, the selector medium, and the
\* js result is listed first.
SampleLengths == {o.len : o \in JsOutcomes \cup CssOutcomes}
AttemptOf(r) == attempts[r.selector + 1]
C16_Inv ==
  Probing =>
    /\ ppc \in {"Js", "Css", "Done"}
    /\ \A k \in 1..Len(attempts) : attempts[k].selector = k - 1
    /\ (ppc = "Done" =>
          /\ Len(attempts) = 1 + Len(css_selectors(field_name))
          /\ \A k \in 1..Len(attempts) :
               (attempts[k].outcome.kind = "text" /\ attempts[k].outcome.stripped > 10)
                 => \E i \in 1..Len(probe_results) :
                      /\ probe_results[i].selector = k - 1
                      /\ probe_results[i].length = attempts[k].outcome.len
          /\ \A i \in 1..Len(probe_results) :
               /\ probe_results[i].selector + 1 \in 1..Len(attempts)
               /\ AttemptOf(probe_results[i]).outcome.kind = "text"
               /\ AttemptOf(probe_results[i]).outcome.stripped >= 10
               /\ AttemptOf(probe_results[i]).strategy = probe_results[i].strategy
               /\ \A j \in 1..Len(probe_results) :
                    probe_results[j].selector = probe_results[i].selector => i = j)
C16_Step ==
  (Probing /\ ppc \in {"Js", "Css"}) =>
    /\ Len(attempts') = Len(attempts) + 1
    /\ ppc' \in {"Css", "Done"}
C16_NeverFails == []C16_Inv /\ [][C16_Step]_vars
C16_Witness ==
  /\ Probing /\ ppc = "Done" /\ field_name = "title"
  /\ attempts[1].outcome = Raised
  /\ attempts[2].outcome = Raised
  /\ attempts[3].outcome = NoneText
  /\ attempts[4].outcome = Text(60, 11)
  /\ attempts[5].outcome = Raised
  /\ Len(probe_results) = 1 /\ probe_results[1].selector = 3

\* C17: an attempt is kept exactly when its trimmed text has at least 10
\* characters.
C17_KeptFromTen ==
  (Probing /\ ppc = "Done") =>
    \A k \in 1..Len(attempts) :
      (attempts[k].outcome.kind = "text" /\ attempts[k].outcome.stripped >= 10)
        <=> (\E i \in 1..Len(probe_results) : probe_results[i].selector = k - 1)

\* C18: test_show_more_button returns needed = false when no trigger was
\* clicked and also when one was clicked but the length measured afterwards
\* equals the one measured before; needed = true only when a click changed
\* the measured length.
C18_NeededOnlyOnChange ==
  (mode = "expand" /\ xpc = "Done") =>
    (show_more_strategy.needed <=>
       (clicked /\ show_more_strategy.after_length # show_more_strategy.before_length))

\* C19: test_show_more_button always returns a dict with a needed entry:
\* a page without the description element gives a baseline of 0, and a
\* failing baseline measurement, trigger lookup, click or second measurement
\* ends in a return, with needed = false when nothing was clicked.
C19_Inv ==
  mode = "expand" =>
    /\ xpc \in {"Baseline", "Triggers", "Remeasure", "Done"}
    /\ ((xpc = "Triggers" /\ trigger_log = <<>>) =>
          /\ desc_before = MeasuredLength(page_desc)
          /\ (page_desc = -1 => desc_before = 0))
    /\ (xpc = "Done" =>
          /\ "needed" \in show_more_strategy.keys
          /\ (~clicked => ~show_more_strategy.needed)
          /\ (clicked => trigger_log[Len(trigger_log)] = "clicked")
          /\ ("before_length" \in show_more_strategy.keys =>
                show_more_strategy.before_length = desc_before)
          /\ ((~clicked /\ trigger_log # <<>>) =>
                Len(trigger_log) = Len(button_selectors)))
C19_Step ==
  (mode = "expand" /\ xpc # "Done") => xpc' \in {"Triggers", "Remeasure", "Done"}
C19_NeverFails == []C19_Inv /\ [][C19_Step]_vars
C19_Witness ==
  /\ mode = "expand" /\ xpc = "Done" /\ page_desc = -1
  /\ trigger_log = <<"timeout", "click_raises", "no_button", "timeout">>
  /\ show_more_strategy = NotNeeded(0)

\* C20: when the job id cannot be extracted from the url with the site
\* chosen for it, run_discovery_mode ends with the error that says so, and
\* no browser was launched, no navigation and no other page operation was
\* made and the oracle was not called.
ChosenSite == ResolvedSite(job_url, site_arg)
Unresolvable == ChosenSite # "None" /\ JobIdOf(job_url, ChosenSite) = "None"
C20_Inv ==
  (mode = "discover" /\ Unresolvable) =>
    /\ dpc \in {"Called", "Raised"}
    /\ (dpc = "Raised" => d_error = "Could not extract job ID from URL")
    /\ browser = "none" /\ navigations = 0 /\ page_ops = 0
    /\ oracle_calls = 0 /\ d_log = NoLog
C20_Step ==
  (mode = "discover" /\ Unresolvable /\ dpc = "Called") => dpc' = "Raised"
C20_FailsBeforeBrowser == []C20_Inv /\ [][C20_Step]_vars
C20_Witness ==
  /\ mode = "discover" /\ dpc = "Raised"
  /\ job_url = LinkedInUrl /\ site_arg = "indeed"
  /\ d_error = "Could not extract job ID from URL"
  /\ browser = "none" /\ navigations = 0 /\ oracle_calls = 0

\* C30: detect_job_site gives the same result on every call for the same
\* url: the earliest of linkedin, indeed, glassdoor whose url_pattern matches,
\* and NotFound when none does; with extract_job_id the linkedin example url
\* gives linkedin and 4300362234, the indeed one indeed and
\* d7a8476f98b7ec44.
Matching(url) == {k \in 1..Len(SiteOrder) : UrlPatternMatches(SiteOrder[k], url)}
C30_FirstMatch ==
  mode = "registry" =>
    /\ \A i, j \in 1..Len(detected) : detected[i] = detected[j]
    /\ \A i, j \in 1..Len(extracted) : extracted[i] = extracted[j]
    /\ \A i \in 1..Len(detected) :
         /\ (Matching(reg_url) = {} <=> detected[i] = "None")
         /\ (Matching(reg_url) # {} =>
               \E k \in Matching(reg_url) :
                 /\ detected[i] = SiteOrder[k]
                 /\ \A m \in Matching(reg_url) : k <= m)
         /\ (reg_url = ScenarioAUrl => detected[i] = "linkedin")
         /\ (reg_url = ScenarioBUrl => detected[i] = "indeed")
    /\ \A i \in 1..Len(extracted) :
         /\ (reg_url = ScenarioAUrl => extracted[i] = "4300362234")
         /\ (reg_url = ScenarioBUrl => extracted[i] = "d7a8476f98b7ec44")
C30_Witness ==
  /\ mode = "registry" /\ reg_url = TwoProfilesUrl
  /\ Matching(reg_url) = {1, 2}
  /\ Len(detected) >= 2 /\ detected[1] = "linkedin" /\ detected[2] = "linkedin"
  /\ Len(extracted) >= 1

\* ------------------------------------------------------------ properties: discovery records
Written == mode = "discover" /\ persisted # NoLog

\* C21: every discovery record written to disk carries the site that
\* detect_job_site gives for the record's url; a hint naming another site
\* never reaches a written record.
C21_SiteMatchesUrl ==
  Written => persisted.site = DetectJobSite(persisted.url)

\* C22: within one discovery run the operations happen one after the other
\* in a fixed order: the probes of title, company, location and description,
\* each returned before the next begins, then test_show_more_button once,
\* then the html samples, then the oracle call.
C22_Sequential ==
  mode = "discover" =>
    /\ Cardinality(active) <= 1
    /\ Len(events) <= Len(DiscoveryOrder)
    /\ events = SubSeq(DiscoveryOrder, 1, Len(events))
    /\ oracle_calls <= 1
    /\ (oracle_calls = 1 => events = DiscoveryOrder /\ active = {})

C22_Witness ==
  mode = "discover" /\ dpc = "Done" /\ events = DiscoveryOrder

\* C23: whatever the oracle's text says for job_id, url, tested_strategies,
\* show_more_strategy, html_samples, site, timestamp and script_version, the
\* written record holds the values of the run.
C23_EvidenceWins ==
  Written =>
    /\ persisted.job_id = job_id
    /\ job_id = JobIdOf(job_url, ResolvedSite(job_url, site_arg))
    /\ persisted.url = job_url
    /\ persisted.tested_strategies = tested
    /\ persisted.show_more_strategy = show_more
    /\ persisted.html_samples = html_samples
    /\ persisted.site = ResolvedSite(job_url, site_arg)
    /\ persisted.timestamp = "now"
    /\ persisted.script_version = "1.1"
    /\ d_log = persisted

C23_Witness ==
  /\ Written /\ response.json = "dict" /\ response.claims
  /\ persisted.observations = <<"narrative:observed">>
  /\ \E f \in ProbeFields : ~tested[f]
  /\ html_samples # OracleDict(response).html_samples

\* C24: once the oracle has answered, the run returns a record, whatever
\* the shape of the text: a fenced object, bare JSON of any type, a fenced
\* block that is not JSON, or prose.
C24_AnyShapeReturns ==
  (mode = "discover" /\ response # NoResponse) => dpc = "Done" /\ Written

\* C25: a run in which no field has a working strategy still writes a
\* record, and the record carries a mark of low quality.
C25_MarkedLowQuality ==
  (Written /\ \A f \in ProbeFields : ~tested[f]) =>
    \E k \in DOMAIN persisted :
      k \notin DOMAIN OracleDict(response) \cup DOMAIN FallbackLog(job_id, job_url)
                 \cup DOMAIN RunEntries(job_id, job_url, tested, show_more,
                                        html_samples)
                 \cup DOMAIN SaveEntries("None")

\* C26: the fields with an html sample are among the fields with a
\* non-empty list of strategies, and no sample is longer than 500.
C26_SamplesBounded ==
  mode = "discover" =>
    /\ DOMAIN html_samples \subseteq {f \in ProbeFields : tested[f]}
    /\ \A f \in DOMAIN html_samples : html_samples[f] <= 500
    /\ (Written => persisted.html_samples = html_samples)

C26_Witness ==
  /\ Written
  /\ \E f, g, h \in ProbeFields :
       /\ tested[f] /\ f \in DOMAIN html_samples /\ html_samples[f] = 500
       /\ tested[g] /\ g \notin DOMAIN html_samples
       /\ ~tested[h]

\* ------------------------------------------------------------ properties: generation step
Answered == mode = "synthesize" /\ generated_script # NoText

\* C27: a script that has a syntax error or does not contain page.evaluate(
\* makes generation raise with nothing written; a script that passes both
\* is written whatever it hard-codes, whichever required functions it
\* lacks and whichever AI libraries it imports, with warnings at most.
C27_ContractTiers ==
  Answered =>
    IF generated_script.syntax = "ok" /\ generated_script.evaluate
    THEN /\ spc \in {"Written", "Validating", "Returned"} /\ s_error = "none"
         /\ artifact = [path |-> s_site, text |-> generated_script]
         /\ s_warnings \subseteq {"CSS selector loops", "Missing required functions",
                                  "should not import AI libraries"}
    ELSE spc = "Raised" /\ s_error # "none" /\ artifact = NoArtifact

C27_Witness ==
  /\ Answered /\ spc = "Written"
  /\ ~generated_script.functions /\ generated_script.ai_import
  /\ generated_script.hardcoded
  /\ "Missing required functions" \in s_warnings
  /\ "should not import AI libraries" \in s_warnings

\* C28: when the site of the log differs from the site detect_job_site
\* gives for the url of the log, generation raises before the oracle is
\* called and before an artifact is written.
C28_MismatchFailsFirst ==
  (/\ mode = "synthesize" /\ s_log.site # "None" /\ s_log.url # NoUrl
   /\ s_log.site # DetectJobSite(s_log.url))
    => /\ s_oracle_calls = 0 /\ artifact = NoArtifact
       /\ spc \in {"Called", "Raised"}

\* C29: in the prompt no field that has a working strategy in the log is
\* shown with the placeholder locator.
C29_NoPlaceholderForWorking ==
  (mode = "synthesize" /\ generation_prompt # NoGenPrompt) =>
    \A f \in ProbeFields :
      s_log.tested_strategies[f] # <<>> => generation_prompt[f] # Placeholder(f)

\* ------------------------------------------------------------ properties: record file
\* C31: the record load_discovery_log returns from the file that
\* save_discovery_log wrote equals, entry for entry, the record that was
\* saved, with the site, timestamp and script_version set by the save.
C31_RoundTrip ==
  (mode = "persist" /\ fpc = "Loaded") =>
    /\ loaded_log = log_data
    /\ \E i \in 1..Len(loaded_log.items) :
         loaded_log.items[i] = Item("site", PyStr(p_site))
    /\ \E i \in 1..Len(loaded_log.items) :
         /\ loaded_log.items[i].key = "timestamp"
         /\ loaded_log.items[i].val \in {PyStr(now) : now \in SaveTimes}
    /\ \E i \in 1..Len(loaded_log.items) :
         loaded_log.items[i] = Item("script_version", PyStr("1.1"))

C31_Witness ==
  /\ mode = "persist" /\ fpc = "Loaded" /\ loaded_log = log_data
  /\ \E i, j \in 1..Len(loaded_log.items) :
       /\ loaded_log.items[i].key = "tested_strategies"
       /\ loaded_log.items[i].val.items[1].val.items # <<>>
       /\ loaded_log.items[j] = Item("confidence", PyFloat("0.95"))
  /\ loaded_log.items[1] = Item("site", PyStr(p_site))

\* ------------------------------------------------------------ properties: artifact file
\* C32: in a generate run the artifact on disk, from its first write and
\* after every repair of the loop, has valid syntax and contains
\* page.evaluate(.
C32_ArtifactKeepsContract ==
  (mode = "generate" /\ script # NoScript) =>
    ValidPythonSyntax(script) /\ UsesPageEvaluate(script)

\* C33: for one execution result the harness records success exactly when
\* the loop takes its passing branch.
C33_SameVerdict ==
  (mode = "judge" /\ harness_verdict # "unjudged" /\ loop_verdict # "unjudged")
    => (harness_verdict = "success" <=> loop_verdict = "Sufficient")

\* C34: when the loop returns, passed or failed, the artifact file is
\* there and holds the text that the last attempt executed; nothing
\* writes or removes it between that execution and the return, or after.
C34_Inv ==
  (mode = "validate" /\ pc \in {"Passed", "Failed"}) =>
    /\ script # NoScript /\ Len(script) >= 2 /\ script[1] = Shebang
    /\ (pc = "Passed" => /\ log # <<>>
                         /\ Last(log).outcome = "Sufficient"
                         /\ Last(log).attempt = attempt)
C34_Step ==
  (mode = "validate" /\ pc' \in {"Passed", "Failed"}) =>
    /\ script' = script /\ writes' = writes
    /\ (pc \notin {"Passed", "Failed"} =>
          /\ pc = "Running"
          /\ (executions' = executions + 1 \/ max_attempts < 1))
C34_ArtifactIsLastExecuted == []C34_Inv /\ [][C34_Step]_vars

C34_Witness ==
  /\ mode = "validate" /\ pc = "Failed" /\ max_attempts = 3
  /\ executions = 3 /\ writes = 2
  /\ script = <<Shebang, "I cannot fix this script">>

\* ------------------------------------------------------------ properties: generation frame
\* C35: when generation raises on a script that has a syntax error or no
\* page.evaluate(, no file of generated_scripts is written or changed,
\* neither the one of the site nor those of the other sites, and the
\* validation loop is not started.
C35_Inv ==
  (mode = "synthesize" /\ spc \in {"Called", "Prompted", "Raised"}) =>
    /\ generated_scripts \in ScriptDirs /\ artifact = NoArtifact
    /\ pc = "Idle" /\ executions = 0
C35_Step ==
  (mode = "synthesize" /\ spc' \in {"Called", "Prompted", "Raised"}) =>
    generated_scripts' = generated_scripts /\ pc' = pc
C35_NoWriteOnViolation == []C35_Inv /\ [][C35_Step]_vars

C35_Witness ==
  /\ mode = "synthesize" /\ spc = "Raised"
  /\ generated_script.syntax = "ok" /\ ~generated_script.evaluate
  /\ generated_scripts = [s \in JobSites |-> EarlierText]

\* C36: the validation loop is started only when config.enable_validation
\* holds, and with max_attempts equal to config.max_validation_attempts.
C36_ConfiguredValidation ==
  (mode = "synthesize" /\ spc = "Validating") =>
    /\ s_config.enable_validation
    /\ max_attempts = s_config.max_validation_attempts

\* ------------------------------------------------------------ properties: canonical urls
\* C37: for every url normalize_job_url accepts, normalizing its
\* canonical_url succeeds and gives the same site, job id and
\* canonical_url.
C37_Idempotent ==
  (mode = "canon" /\ normalized.ok /\ renormalized # NotCalled) =>
    renormalized = normalized

\* C38: for every url normalize_job_url accepts, ai_parser.detect_job_site
\* of the canonical url is the site and ai_parser.extract_job_id of the
\* canonical url is the job id the canonicalizer found.
C38_RegistryAgrees ==
  (mode = "canon" /\ normalized.ok) =>
    /\ (c_detected # "not called" => c_detected = normalized.site)
    /\ (c_extracted # "not called" => c_extracted = normalized.job_id)

====
